---- MODULE Spec2Model ----
(***************************************************************************)
(* The token endpoint of the OAuth2 server library: TokenHandler and the   *)
(* grant types it dispatches to, running over a host-supplied model (the   *)
(* persistence adapter).  Every request is a process that advances from    *)
(* one awaited model call to the next; everything the code does between    *)
(* two awaits is one atomic step.                                          *)
(***************************************************************************)
EXTENDS Integers, Sequences, FiniteSets, TLC

(***************************************************************************)
(* Bounds of the model.                                                    *)
(***************************************************************************)
\* The clock runs from 1 to MaxTime.
MaxTime == 2
\* Request slots (requests that can be in flight at the same time).
NumReq == 2

Reqs == 1..NumReq

(***************************************************************************)
(* JavaScript values.  undefined, null, false, 0 and "" are the falsy      *)
(* values that can occur in the positions modelled here.                   *)
(***************************************************************************)
Undefined == "<undefined>"
JsNull == "<null>"
JsFalse == "<false>"
JsTrue == "<true>"
JsZero == "<0>"
JsOther == "<yes>"

Falsy(v) == v \in {Undefined, JsNull, JsFalse, JsZero, ""}
Truthy(v) == ~Falsy(v)

\* a || b
Or(a, b) == IF Truthy(a) THEN a ELSE b

(***************************************************************************)
(* Validators (validators/IsValidator): the character classes of RFC 6749  *)
(* appendix A, as the sets of the strings of the model that belong to      *)
(* them.                                                                   *)
(***************************************************************************)
UriA == "https://x.test/cb"
UriB == "https://x.test/cc"
NotAUri == "x test cb"
ExtGrant == "urn:ext:grant"
NonVschar == "bad\ncode"
\* A URI with a query component.
UriQ == "https://x.test/cb?a=1"

UriStrings == {UriA, UriB, UriQ, ExtGrant}

BuiltinGrantNames ==
  {"authorization_code", "client_credentials", "password", "refresh_token"}

NcharStrings ==
  BuiltinGrantNames \cup {"foo", "c1", "c2", "c3", "c4", "zz",
                          "s1", "s2", "s3", "s4",
                          "k1", "k2", "k3", "k4", "k9", "t1", "t2", "t9",
                          "read", "xyz", "code", "token"}

uri(v) == v \in UriStrings
nchar(v) == v \in NcharStrings
\* An absent value is tested as the string "undefined".
vschar(v) == v \in NcharStrings \cup UriStrings \cup {NotAUri, Undefined}

(***************************************************************************)
(* The error taxonomy.                                                     *)
(***************************************************************************)
OAuthException(name, code, message) ==
  [name |-> name, code |-> code, message |-> message]

NoError == OAuthException("", 0, "")

InvalidArgumentException(message) ==
  OAuthException("invalid_argument", 500, message)
InvalidClientException(message) ==
  OAuthException("invalid_client", 400, message)
InvalidGrantException(message) ==
  OAuthException("invalid_grant", 400, message)
InvalidRequestException(message) ==
  OAuthException("invalid_request", 400, message)
InvalidScopeException(message) ==
  OAuthException("invalid_scope", 400, message)
ServerException(message) ==
  OAuthException("server_error", 503, message)
UnauthorizedClientException(message) ==
  OAuthException("unauthorized_client", 400, message)
UnsupportedGrantTypeException(message) ==
  OAuthException("unsupported_grant_type", 400, message)

\* What a model method throws when it fails: an Error that is not an
\* OAuthException.
ModelFailure == [name |-> "Error", code |-> 0, message |-> "model failure"]

IsOAuthException(e) == e.name \notin {"Error", "TypeError"}

(***************************************************************************)
(* The model (the host's persistence adapter) and what it holds.  The     *)
(* clients, authorization codes and refresh tokens it has issued are      *)
(* fixed; which of them have been revoked or exchanged changes.  An       *)
(* optional number or Date is the set of its value: {} when the attribute  *)
(* is absent.                                                              *)
(***************************************************************************)
RegisteredGrants == BuiltinGrantNames \cup {ExtGrant}

ClientTable ==
  [c1 |-> [id |-> "c1", secret |-> "s1", grants |-> RegisteredGrants,
           redirectUris |-> <<UriA, UriQ>>, accessTokenLifetime |-> {}],
   c2 |-> [id |-> "c2", secret |-> "s2",
           grants |-> {"authorization_code", "refresh_token"},
           redirectUris |-> <<UriQ>>, accessTokenLifetime |-> {}],
   c3 |-> [id |-> "c3", secret |-> "s3", grants |-> {"password"},
           redirectUris |-> <<UriA>>, accessTokenLifetime |-> {60}],
   c4 |-> [id |-> "c4", secret |-> "s4", grants |-> {"authorization_code"},
           redirectUris |-> <<>>, accessTokenLifetime |-> {}]]

CodeTable ==
  [k1 |-> [authorizationCode |-> "k1", expiresAt |-> 1, redirectUri |-> UriA,
           scope |-> "read", client |-> "c1", user |-> "u1"],
   k2 |-> [authorizationCode |-> "k2", expiresAt |-> 2,
           redirectUri |-> Undefined,
           scope |-> "read", client |-> "c1", user |-> "u1"],
   k3 |-> [authorizationCode |-> "k3", expiresAt |-> 2, redirectUri |-> NotAUri,
           scope |-> "read", client |-> "c1", user |-> "u1"],
   k4 |-> [authorizationCode |-> "k4", expiresAt |-> 0, redirectUri |-> UriA,
           scope |-> "read", client |-> "c1", user |-> "u1"]]

\* An optional Date is the set of its value: {} when the attribute is absent.
RefreshTokenTable ==
  [t1 |-> [refreshToken |-> "t1", refreshTokenExpiresAt |-> {},
           scope |-> "read", client |-> "c1", user |-> "u1"],
   t2 |-> [refreshToken |-> "t2", refreshTokenExpiresAt |-> {0},
           scope |-> "read", client |-> "c1", user |-> "u1"]]

\* The methods a handler or grant type requires of the model, and the
\* optional ones.
RequiredMethods ==
  {"getClient", "saveToken", "getAuthorizationCode", "revokeAuthorizationCode",
   "getRefreshToken", "revokeToken", "getUser", "getUserFromClient",
   "saveAuthorizationCode"}
OptionalMethods ==
  {"validateScope", "generateAccessToken", "generateRefreshToken",
   "generateAuthorizationCode"}

\* A model keeps authorization codes single-use in one of two ways: it no
\* longer returns a revoked code ("forgets"), or it still returns it and
\* answers false when asked to revoke it again ("refuses").
ModelKinds == {"forgets", "refuses"}

\* model.getClient(id, secret): the client, or null.
model_getClient(id, secret) ==
  IF id \in DOMAIN ClientTable
     /\ (secret = Undefined \/ ClientTable[id].secret = secret)
  THEN id ELSE JsNull

\* model.getAuthorizationCode(code): the code, or null.
model_getAuthorizationCode(kind, revoked, c) ==
  IF c \in DOMAIN CodeTable /\ ~(kind = "forgets" /\ c \in revoked)
  THEN c ELSE JsNull

\* model.revokeAuthorizationCode(code): true the first time, false after.
model_revokeAuthorizationCode(revoked, c) ==
  IF c \in revoked THEN JsFalse ELSE JsTrue

\* model.getRefreshToken(token): the refresh token, or null.
model_getRefreshToken(kind, revoked, t) ==
  IF t \in DOMAIN RefreshTokenTable /\ ~(kind = "forgets" /\ t \in revoked)
  THEN t ELSE JsNull

\* model.revokeToken(token): true the first time, false after.
model_revokeToken(revoked, t) ==
  IF t \in revoked THEN JsFalse ELSE JsTrue

(***************************************************************************)
(* Requests and per-call options.                                          *)
(***************************************************************************)
BasicC1 == "Basic c1:s1"
BasicUnknown == "Basic zz:s1"
\* Basic credentials with an empty user-id, and with an empty password.
BasicNoName == "Basic :s1"
BasicNoPass == "Basic c1:"
\* An Authorization header that carries no Basic credentials.
BearerHeader == "Bearer abc"

\* basic-auth: the credentials of an Authorization header, if it has any.
auth(request) ==
  CASE request.authorization = BasicC1 -> [name |-> "c1", pass |-> "s1"]
    [] request.authorization = BasicUnknown -> [name |-> "zz", pass |-> "s1"]
    [] request.authorization = BasicNoName -> [name |-> "", pass |-> "s1"]
    [] request.authorization = BasicNoPass -> [name |-> "c1", pass |-> ""]
    [] OTHER -> [name |-> Undefined, pass |-> Undefined]

\* A Request: the endpoint the host routes it to, its method, whether its
\* content type is application/x-www-form-urlencoded, its Authorization
\* header, the fields of its body and, as query_..., those of its query.
BaseRequest ==
  [path |-> "/token",
   method |-> "POST", form |-> TRUE, authorization |-> Undefined,
   client_id |-> Undefined, client_secret |-> Undefined,
   grant_type |-> Undefined, code |-> Undefined, redirect_uri |-> Undefined,
   query_redirect_uri |-> Undefined, refresh_token |-> Undefined,
   scope |-> Undefined, username |-> Undefined, password |-> Undefined,
   state |-> Undefined, response_type |-> Undefined,
   query_client_id |-> Undefined, query_scope |-> Undefined,
   query_state |-> Undefined, query_response_type |-> Undefined,
   query_allowed |-> Undefined]

\* Server.token's defaults with the server-level and per-call options spread
\* over them.  requireClientAuthentication is a map from grant names to
\* booleans: its keys, and the keys whose value is true.
DefaultOptions ==
  [alwaysIssueNewRefreshToken |-> Undefined,
   extendedGrantTypes |-> {},
   requireClientAuthentication |-> [keys |-> {}, required |-> {}],
   allowEmptyState |-> JsFalse,
   authorizationCodeLifetime |-> 300,
   accessTokenLifetime |-> 3600,
   authenticateHandler |-> Undefined]

\* Dates are milliseconds; one step of the clock is TickMillis long.
TickMillis == 1500
Date(t) == t * TickMillis

(***************************************************************************)
(* TokenHandler.                                                           *)
(***************************************************************************)
\* The mutant: the option is read for its truthiness.
TokenHandler_alwaysIssueNewRefreshToken_truthy(options) ==
  IF Truthy(options.alwaysIssueNewRefreshToken) THEN JsTrue ELSE JsFalse

\* this.alwaysIssueNewRefreshToken = options.alwaysIssueNewRefreshToken !== false
TokenHandler_alwaysIssueNewRefreshToken(options) ==
  IF options.alwaysIssueNewRefreshToken # JsFalse THEN JsTrue ELSE JsFalse

\* this.grantTypes = { ...grantTypes, ...options.extendedGrantTypes }
grantTypes(options) == BuiltinGrantNames \cup options.extendedGrantTypes

\* The mutant: with a non-empty map, a grant it does not list is exempt.
isClientAuthenticationRequired_unlisted_exempt(options, grantType) ==
  LET rca == options.requireClientAuthentication IN
  IF Cardinality(rca.keys) > 0 THEN grantType \in rca.required ELSE TRUE

isClientAuthenticationRequired(options, grantType) ==
  LET rca == options.requireClientAuthentication IN
  IF Cardinality(rca.keys) > 0
  THEN IF grantType \in rca.keys THEN grantType \in rca.required ELSE TRUE
  ELSE TRUE

\* The mutant: the body's credentials are returned as they are.
getClientCredentials_lenient(request, options) ==
  LET credentials == auth(request) IN
  IF credentials.name # Undefined
  THEN [error |-> NoError, clientId |-> credentials.name,
        clientSecret |-> credentials.pass]
  ELSE [error |-> NoError, clientId |-> request.client_id,
        clientSecret |-> request.client_secret]

\* The credentials, or the error getClientCredentials throws.
getClientCredentials(request, options) ==
  LET credentials == auth(request)
      grantType == request.grant_type
  IN
  IF credentials.name # Undefined
  THEN [error |-> NoError, clientId |-> credentials.name,
        clientSecret |-> credentials.pass]
  ELSE IF Truthy(request.client_id) /\ Truthy(request.client_secret)
  THEN [error |-> NoError, clientId |-> request.client_id,
        clientSecret |-> request.client_secret]
  ELSE IF ~isClientAuthenticationRequired(options, grantType)
          /\ Truthy(request.client_id)
  THEN [error |-> NoError, clientId |-> request.client_id,
        clientSecret |-> Undefined]
  ELSE [error |-> InvalidClientException(
                    "Invalid client: cannot retrieve client credentials"),
        clientId |-> Undefined, clientSecret |-> Undefined]

\* getClient up to its call of model.getClient: the error it throws, or the
\* credentials it passes to the model.
getClient_before(request, options) ==
  LET credentials == getClientCredentials(request, options)
      grantType == request.grant_type
  IN
  IF credentials.error # NoError THEN credentials
  ELSE IF Falsy(credentials.clientId)
  THEN [credentials EXCEPT !.error =
          InvalidRequestException("Missing parameter: client_id")]
  ELSE IF isClientAuthenticationRequired(options, grantType)
          /\ Falsy(credentials.clientSecret)
  THEN [credentials EXCEPT !.error =
          InvalidRequestException("Missing parameter: client_secret")]
  ELSE IF ~vschar(credentials.clientId)
  THEN [credentials EXCEPT !.error =
          InvalidRequestException("Invalid parameter: client_id")]
  ELSE IF Truthy(credentials.clientSecret) /\ ~vschar(credentials.clientSecret)
  THEN [credentials EXCEPT !.error =
          InvalidRequestException("Invalid parameter: client_secret")]
  ELSE credentials

\* The mutant: the grant type is looked up before the client is checked.
getClient_after_grant_type_first(request, c, thrown) ==
  LET e == IF thrown # NoError THEN thrown
           ELSE IF Truthy(request.grant_type)
                   /\ request.grant_type \notin BuiltinGrantNames
           THEN UnsupportedGrantTypeException(
                  "Unsupported grant type: grant_type is invalid")
           ELSE IF Falsy(c)
           THEN InvalidClientException("Invalid client: client is invalid")
           ELSE NoError
  IN
  IF e.name = "invalid_client" /\ Truthy(request.authorization)
  THEN [e EXCEPT !.code = 401]
  ELSE e

\* The mutant: the catch block rethrows what it caught.
getClient_after_rethrows(request, c, thrown) ==
  IF thrown # NoError THEN thrown
  ELSE IF Falsy(c)
  THEN InvalidClientException("Invalid client: client is invalid")
  ELSE NoError

\* getClient from the return of model.getClient: the error thrown inside the
\* try block, as the catch block rethrows it.  c is the returned client (a key
\* of ClientTable) or null; thrown is what the model threw, if it threw.
getClient_after(request, c, thrown) ==
  LET e == IF thrown # NoError THEN thrown
           ELSE IF Falsy(c)
           THEN InvalidClientException("Invalid client: client is invalid")
           ELSE NoError
           \* client.grants of a Client is always an array: the two
           \* ServerExceptions of lines 153-159 cannot be thrown.
  IN
  IF e.name = "invalid_client" /\ Truthy(request.authorization)
  THEN [e EXCEPT !.code = 401]
  ELSE e

\* The WWW-Authenticate header getClient's catch block sets.
getClient_headers(request, c, thrown) ==
  LET e == getClient_after(request, c, thrown) IN
  IF e.name = "invalid_client" /\ Truthy(request.authorization)
  THEN {<<"WWW-Authenticate", "Basic realm=\"Service\"">>}
  ELSE {}

\* The mutant: the grants of the client are not looked at.
handleGrantType_any_client(request, options, c) ==
  LET grantType == request.grant_type IN
  IF Falsy(grantType)
  THEN InvalidRequestException("Missing parameter: grant_type")
  ELSE IF ~nchar(grantType) /\ ~uri(grantType)
  THEN InvalidRequestException("Invalid parameter: grant_type")
  ELSE IF grantType \notin grantTypes(options)
  THEN UnsupportedGrantTypeException(
         "Unsupported grant type: grant_type is invalid")
  ELSE NoError

\* The mutant: the grants of the client are looked at before the registry.
handleGrantType_grants_first(request, options, c) ==
  LET grantType == request.grant_type IN
  IF Falsy(grantType)
  THEN InvalidRequestException("Missing parameter: grant_type")
  ELSE IF ~nchar(grantType) /\ ~uri(grantType)
  THEN InvalidRequestException("Invalid parameter: grant_type")
  ELSE IF grantType \notin ClientTable[c].grants
  THEN UnauthorizedClientException(
         "Unauthorized client: grant_type is invalid")
  ELSE IF grantType \notin grantTypes(options)
  THEN UnsupportedGrantTypeException(
         "Unsupported grant type: grant_type is invalid")
  ELSE NoError

\* The error handleGrantType throws before it constructs the grant type.
handleGrantType(request, options, c) ==
  LET grantType == request.grant_type IN
  IF Falsy(grantType)
  THEN InvalidRequestException("Missing parameter: grant_type")
  ELSE IF ~nchar(grantType) /\ ~uri(grantType)
  THEN InvalidRequestException("Invalid parameter: grant_type")
  ELSE IF grantType \notin grantTypes(options)
  THEN UnsupportedGrantTypeException(
         "Unsupported grant type: grant_type is invalid")
  ELSE IF grantType \notin ClientTable[c].grants
  THEN UnauthorizedClientException(
         "Unauthorized client: grant_type is invalid")
  ELSE NoError

\* The catch block of handle: what is not an OAuthException becomes a
\* ServerException.
handle_catch(e) ==
  IF ~IsOAuthException(e) THEN ServerException(e.message) ELSE e

updateErrorResponse(response, e) ==
  [response EXCEPT !.body = [error |-> e.name, error_description |-> e.message,
                             expires_in |-> {}],
                   !.status = e.code]

\* getAccessTokenLifetime: client.accessTokenLifetime || this.accessTokenLifetime
getAccessTokenLifetime(c, options) ==
  IF \E l \in ClientTable[c].accessTokenLifetime : l # 0
  THEN CHOOSE l \in ClientTable[c].accessTokenLifetime : TRUE
  ELSE options.accessTokenLifetime

(***************************************************************************)
(* The grant types.                                                        *)
(***************************************************************************)
\* The methods each grant type's constructor requires of the model.
ConstructorRequires ==
  [authorization_code |->
     <<"getAuthorizationCode", "revokeAuthorizationCode", "saveToken">>,
   client_credentials |-> <<"getUserFromClient", "saveToken">>,
   password |-> <<"getUser", "saveToken">>,
   refresh_token |-> <<"getRefreshToken", "revokeToken", "saveToken">>]

\* The error the constructor of a built-in grant type throws: the first
\* required method the model does not implement.
GrantType_constructor(type, methods) ==
  LET need == ConstructorRequires[type]
      missing == {i \in 1..Len(need) : need[i] \notin methods}
  IN
  IF missing = {} THEN NoError
  ELSE LET first == CHOOSE i \in missing : \A j \in missing : i <= j IN
       InvalidArgumentException("Invalid argument: model does not implement "
                                \o need[first] \o "()")

\* --- AuthorizationCodeGrantType ---

\* getAuthorizationCode up to its call of model.getAuthorizationCode.
getAuthorizationCode_before(request) ==
  IF Falsy(request.code)
  THEN InvalidRequestException("Missing parameter: code")
  ELSE IF ~vschar(request.code)
  THEN InvalidRequestException("Invalid parameter: code")
  ELSE NoError

\* The mutant: the owner of the code is not compared with the client.
getAuthorizationCode_after_no_owner(c, k, t) ==
  IF Falsy(k)
  THEN InvalidGrantException("Invalid grant: authorization code is invalid")
  ELSE IF CodeTable[k].expiresAt < t
  THEN InvalidGrantException("Invalid grant: authorization code has expired")
  ELSE IF Truthy(CodeTable[k].redirectUri) /\ ~uri(CodeTable[k].redirectUri)
  THEN InvalidGrantException("Invalid grant: redirect_uri is not a valid URI")
  ELSE NoError

\* The mutant: the expiry of the code is not looked at.
getAuthorizationCode_after_no_expiry(c, k, t) ==
  IF Falsy(k)
  THEN InvalidGrantException("Invalid grant: authorization code is invalid")
  ELSE IF CodeTable[k].client # c
  THEN InvalidGrantException("Invalid grant: authorization code is invalid")
  ELSE IF Truthy(CodeTable[k].redirectUri) /\ ~uri(CodeTable[k].redirectUri)
  THEN InvalidGrantException("Invalid grant: redirect_uri is not a valid URI")
  ELSE NoError

\* getAuthorizationCode from the return of model.getAuthorizationCode, for
\* the authenticated client c, the returned code k (a key of CodeTable, or
\* null) and the time t.  A code of the model has a client, a user and a Date
\* expiresAt: the ServerExceptions of lines 84-94 and 102-106 cannot be thrown.
getAuthorizationCode_after(c, k, t) ==
  IF Falsy(k)
  THEN InvalidGrantException("Invalid grant: authorization code is invalid")
  ELSE IF CodeTable[k].client # c
  THEN InvalidGrantException("Invalid grant: authorization code is invalid")
  ELSE IF CodeTable[k].expiresAt < t
  THEN InvalidGrantException("Invalid grant: authorization code has expired")
  ELSE IF Truthy(CodeTable[k].redirectUri) /\ ~uri(CodeTable[k].redirectUri)
  THEN InvalidGrantException("Invalid grant: redirect_uri is not a valid URI")
  ELSE NoError

\* The mutant: the request's redirect_uri only has to be a valid URI.
validateRedirectUri_no_compare(request, k) ==
  IF Falsy(CodeTable[k].redirectUri) THEN NoError
  ELSE IF ~uri(Or(request.redirect_uri, request.query_redirect_uri))
  THEN InvalidRequestException("Invalid request: redirect_uri is not a valid URI")
  ELSE NoError

validateRedirectUri(request, k) ==
  IF Falsy(CodeTable[k].redirectUri) THEN NoError
  ELSE LET redirectUri == Or(request.redirect_uri, request.query_redirect_uri)
       IN
       IF ~uri(redirectUri)
       THEN InvalidRequestException(
              "Invalid request: redirect_uri is not a valid URI")
       ELSE IF redirectUri # CodeTable[k].redirectUri
       THEN InvalidRequestException("Invalid request: redirect_uri is invalid")
       ELSE NoError

\* The mutant: the status the model returns is ignored.
revokeAuthorizationCode_unchecked(status) == NoError

\* The mutant: only an absent status is refused.
revokeAuthorizationCode_absent_only(status) ==
  IF status \in {Undefined, JsNull}
  THEN InvalidGrantException("Invalid grant: authorization code is invalid")
  ELSE NoError

\* revokeAuthorizationCode from the return of model.revokeAuthorizationCode.
revokeAuthorizationCode(status) ==
  IF Falsy(status)
  THEN InvalidGrantException("Invalid grant: authorization code is invalid")
  ELSE NoError

\* The elements of an array.
Elements(seq) == {seq[i] : i \in 1..Len(seq)}

\* --- RefreshTokenGrantType ---

getRefreshToken_before(request) ==
  IF Falsy(request.refresh_token)
  THEN InvalidRequestException("Missing parameter: refresh_token")
  ELSE IF ~vschar(request.refresh_token)
  THEN InvalidRequestException("Invalid parameter: refresh_token")
  ELSE NoError

\* getRefreshToken from the return of model.getRefreshToken, for the
\* authenticated client c, the returned token rt (a key of RefreshTokenTable,
\* or null) and the time t.
getRefreshToken_after(c, rt, t) ==
  IF Falsy(rt)
  THEN InvalidGrantException("Invalid grant: refresh token is invalid")
  ELSE IF RefreshTokenTable[rt].client # c
  THEN InvalidGrantException("Invalid grant: refresh token is invalid")
  ELSE IF \E d \in RefreshTokenTable[rt].refreshTokenExpiresAt : d < t
  THEN InvalidGrantException("Invalid grant: refresh token has expired")
  ELSE NoError

\* The mutant: the old refresh token is revoked whatever the option says.
revokeToken_skipped_always_revokes(always) == FALSE

\* Whether revokeToken returns without calling model.revokeToken.
revokeToken_skipped(always) == always = JsFalse

\* The mutant: the status the model returns is ignored.
revokeToken_unchecked(status) == NoError

\* revokeToken from the return of model.revokeToken.
revokeToken(status) ==
  IF Falsy(status)
  THEN InvalidGrantException("Invalid grant: refresh token is invalid")
  ELSE NoError

\* --- PasswordGrantType, ClientCredentialsGrantType, AbstractGrantType ---

BadScope == "re\"ad"

\* An absent value is tested as the string "undefined", which is in each of
\* these classes.
nqschar(v) == v \in {Undefined, "read"}
uchar(v) == v \in {Undefined, "alice", "pw", "wrong"}

\* getScope: the error it throws.
getScope(request) ==
  IF ~nqschar(request.scope)
  THEN InvalidArgumentException("Invalid parameter: scope")
  ELSE NoError

\* PasswordGrantType.getUser up to its call of model.getUser.
getUser_before(request) ==
  IF Falsy(request.username)
  THEN InvalidRequestException("Missing parameter: username")
  ELSE IF Falsy(request.password)
  THEN InvalidRequestException("Missing parameter: password")
  ELSE IF ~uchar(request.username)
  THEN InvalidRequestException("Invalid parameter: username")
  ELSE IF ~uchar(request.password)
  THEN InvalidRequestException("Invalid parameter: password")
  ELSE NoError

\* model.getUser(username, password): the user, or null.
model_getUser(username, password) ==
  IF username = "alice" /\ password = "pw" THEN "u1" ELSE JsNull

\* getUser and getUserFromClient from the return of the model.
getUser_after(user) ==
  IF Falsy(user)
  THEN InvalidGrantException("Invalid grant: user credentials are invalid")
  ELSE NoError

\* The mutant: every grant type generates a refresh token.
saveToken_calls_uniform(type, methods) ==
  SelectSeq(<<"validateScope", "generateAccessToken", "generateRefreshToken">>,
            LAMBDA m : m \in methods)

\* The optional model methods that the saveToken of a grant type calls before
\* it awaits them together, in the order it calls them.
saveToken_calls(type, methods) ==
  LET all == CASE type = "refresh_token" ->
                    <<"generateAccessToken", "generateRefreshToken">>
               [] type = "client_credentials" ->
                    <<"validateScope", "generateAccessToken">>
               [] OTHER ->
                    <<"validateScope", "generateAccessToken",
                      "generateRefreshToken">>
  IN SelectSeq(all, LAMBDA m : m \in methods)

\* What Promise.all can reject with: validateScope got the falsy sc from the
\* model, or one of the model methods called threw.
saveToken_rejections(type, methods, sc) ==
  LET called == Elements(saveToken_calls(type, methods)) IN
  (IF "validateScope" \in called /\ Falsy(sc)
   THEN {InvalidScopeException("Invalid scope: Requested scope is invalid")}
   ELSE {})
  \cup (IF called # {} THEN {ModelFailure} ELSE {})

\* The scope model.validateScope returns when it returns one of its own.
NarrowedScope == "rd"

\* What model.validateScope(user, client, scope) can return: the scope, a
\* scope of its own, or null.
model_validateScope(scope) == {scope, NarrowedScope, JsNull}

\* The mutant: the scope of the token is the scope that was asked for.
validateScope_as_asked(type, methods, scope, sc) == scope

\* validateScope when it does not throw, for the scope asked for and what
\* model.validateScope returned, if the grant type's saveToken calls it and
\* the model implements it: the scope of the token.
validateScope(type, methods, scope, sc) ==
  IF "validateScope" \in Elements(saveToken_calls(type, methods))
  THEN sc ELSE scope

\* How Promise.all settles: it rejects with one of these, or, validateScope
\* not throwing, it resolves.
saveToken_settles(type, methods, sc) ==
  LET rejections == saveToken_rejections(type, methods, sc) IN
  rejections
  \cup (IF \E e \in rejections : e.name = "invalid_scope" THEN {} ELSE {NoError})

\* The keys of the token object each grant type passes to model.saveToken.
saveToken_keys(type, always) ==
  CASE type = "authorization_code" ->
         {"accessToken", "authorizationCode", "accessTokenExpiresAt",
          "refreshToken", "refreshTokenExpiresAt", "scope"}
    [] type = "password" ->
         {"accessToken", "accessTokenExpiresAt", "refreshToken",
          "refreshTokenExpiresAt", "scope"}
    [] type = "client_credentials" ->
         {"accessToken", "accessTokenExpiresAt", "scope"}
    [] type = "refresh_token" ->
         {"accessToken", "accessTokenExpiresAt", "scope"}
         \cup (IF always # JsFalse
               THEN {"refreshToken", "refreshTokenExpiresAt"} ELSE {})

\* The arguments of model.saveToken: the token object, the client, the user.
SaveArgs(keys, authorizationCode, scope, c, user) ==
  [keys |-> keys, authorizationCode |-> authorizationCode, scope |-> scope,
   client |-> c, user |-> user]

NoSave == SaveArgs({}, Undefined, Undefined, Undefined, Undefined)

\* getAccessTokenExpiresAt of AbstractGrantType at the Date date, for the
\* lifetime the grant type was constructed with.
getAccessTokenExpiresAt(accessTokenLifetime, date) ==
  date + accessTokenLifetime * 1000

\* --- TokenModel ---

msInS == 1000

\* The mutant: the remaining lifetime is rounded to the nearest second.
TokenModel_accessTokenLifetime_rounded(accessTokenExpiresAt, date) ==
  {(e - date + 500) \div msInS : e \in accessTokenExpiresAt}

\* The accessTokenLifetime the constructor of TokenModel sets at the Date
\* date: none when the token has no accessTokenExpiresAt.
TokenModel_accessTokenLifetime(accessTokenExpiresAt, date) ==
  {(e - date) \div msInS : e \in accessTokenExpiresAt}

\* The error the constructor of TokenModel throws for the data the grant
\* returned: the keys of the token, with client and user when the model
\* attached them.
TokenModel(dataKeys) ==
  IF "accessToken" \notin dataKeys
  THEN InvalidArgumentException("Missing parameter: accessToken")
  ELSE IF "client" \notin dataKeys
  THEN InvalidArgumentException("Missing parameter: client")
  ELSE IF "user" \notin dataKeys
  THEN InvalidArgumentException("Missing parameter: user")
  ELSE NoError

(***************************************************************************)
(* AuthorizeHandler.                                                       *)
(***************************************************************************)
AccessDeniedException(message) == OAuthException("access_denied", 400, message)
UnsupportedResponseTypeException(message) ==
  OAuthException("unsupported_response_type", 400, message)
UnauthorizedRequestException(message) ==
  OAuthException("unauthorized_request", 401, message)
InvalidTokenException(message) ==
  OAuthException("invalid_token", 401, message)

\* const responseTypes = { code: CodeResponseType }
responseTypes == {"code"}

\* url.parse(uri, true): the URI without its query component, the query
\* component as a string (search) and as the set of its parameters (query).
UrlParse(u) ==
  IF u = UriQ
  THEN [base |-> UriA, search |-> "?a=1", query |-> {<<"a", "1">>}]
  ELSE [base |-> u, search |-> JsNull, query |-> {}]

\* The parameters of a search string.
SearchParams(search) == IF search = "?a=1" THEN {<<"a", "1">>} ELSE {}

\* url.format(urlObject): search is used when it is truthy, query when not.
UrlFormat(urlObject) ==
  [base |-> urlObject.base,
   params |-> IF Truthy(urlObject.search)
              THEN SearchParams(urlObject.search)
              ELSE urlObject.query]

\* The error handle throws before it resolves the client and the user.
Authorize_handle_before(request) ==
  IF request.query_allowed = "false"
  THEN AccessDeniedException(
         "Access denied: user denied access to application")
  ELSE NoError

\* getClient up to its call of model.getClient: the error it throws.
Authorize_getClient_before(request) ==
  LET clientId == Or(request.client_id, request.query_client_id)
      redirectUri == Or(request.redirect_uri, request.query_redirect_uri)
  IN
  IF Falsy(clientId)
  THEN InvalidRequestException("Missing parameter: client_id")
  ELSE IF ~vschar(clientId)
  THEN InvalidRequestException("Invalid parameter: client_id")
  ELSE IF Truthy(redirectUri) /\ ~uri(redirectUri)
  THEN InvalidRequestException(
         "Invalid request: redirect_uri is not a valid URI")
  ELSE NoError

\* The mutant: the client's grants are not looked at.
Authorize_getClient_after_any_grant(request, c, thrown) ==
  LET redirectUri == Or(request.redirect_uri, request.query_redirect_uri) IN
  IF thrown # NoError THEN thrown
  ELSE IF Falsy(c)
  THEN InvalidClientException("Invalid client: client credentials are invalid")
  ELSE IF Len(ClientTable[c].redirectUris) = 0
  THEN InvalidClientException("Invalid client: missing client redirectUri")
  ELSE IF Truthy(redirectUri)
          /\ redirectUri \notin Elements(ClientTable[c].redirectUris)
  THEN InvalidClientException(
         "Invalid client: redirect_uri does not match client value")
  ELSE NoError

\* The mutant: the request's redirect_uri is not looked up in the client's.
Authorize_getClient_after_any_redirect(request, c, thrown) ==
  IF thrown # NoError THEN thrown
  ELSE IF Falsy(c)
  THEN InvalidClientException("Invalid client: client credentials are invalid")
  ELSE IF "authorization_code" \notin ClientTable[c].grants
  THEN UnauthorizedClientException(
         "Unauthorized client: grant_type is invalid")
  ELSE IF Len(ClientTable[c].redirectUris) = 0
  THEN InvalidClientException("Invalid client: missing client redirectUri")
  ELSE NoError

\* getClient from the return of model.getClient: the error it throws.  c is
\* the returned client or null; thrown is what the model threw, if it threw.
\* A Client always has grants and redirectUris.
Authorize_getClient_after(request, c, thrown) ==
  LET redirectUri == Or(request.redirect_uri, request.query_redirect_uri) IN
  IF thrown # NoError THEN thrown
  ELSE IF Falsy(c)
  THEN InvalidClientException("Invalid client: client credentials are invalid")
  ELSE IF "authorization_code" \notin ClientTable[c].grants
  THEN UnauthorizedClientException(
         "Unauthorized client: grant_type is invalid")
  ELSE IF Len(ClientTable[c].redirectUris) = 0
  THEN InvalidClientException("Invalid client: missing client redirectUri")
  ELSE IF Truthy(redirectUri)
          /\ redirectUri \notin Elements(ClientTable[c].redirectUris)
  THEN InvalidClientException(
         "Invalid client: redirect_uri does not match client value")
  ELSE NoError

\* What the authenticate handler's handle does: it has a user to return, it
\* has none, it throws an OAuthException, or it throws something else.  The
\* handler of the host returns what it has; AuthenticateHandler, used when
\* the host gave none, rejects an access token without user.
AuthenticateOutcomes == {"user", "nothing", "unauthorized", "throw"}

\* getUser from the return of the authenticate handler: the error it throws.
\* Only what the handler of the host returned is checked.
Authorize_getUser_after(options, out) ==
  CASE out = "user" -> NoError
    [] out = "nothing" /\ Falsy(options.authenticateHandler) ->
         InvalidTokenException("Invalid token: access token is invalid")
    [] out = "nothing" ->
         ServerException("Server error: handle() did not return a user object")
    [] out = "unauthorized" ->
         UnauthorizedRequestException("Unauthorized request: no authentication given")
    [] OTHER -> ModelFailure

\* getAuthorizationCodeLifetime at the Date date: the Date the code expires.
getAuthorizationCodeLifetime(options, date) ==
  date + options.authorizationCodeLifetime * 1000

getRedirectUri(request, c) ==
  Or(Or(request.redirect_uri, request.query_redirect_uri),
     ClientTable[c].redirectUris[1])

\* getScope of AuthorizeHandler: the error it throws.
Authorize_getScope(request) ==
  IF ~nqschar(Or(request.scope, request.query_scope))
  THEN InvalidScopeException("Invalid parameter: scope")
  ELSE NoError

\* The mutant: an empty state is allowed whatever the option says.
getState_empty_allowed(request, options) ==
  IF ~vschar(Or(request.state, request.query_state))
  THEN InvalidRequestException("Invalid parameter: state")
  ELSE NoError

\* getState: the error it throws.
getState(request, options) ==
  LET state == Or(request.state, request.query_state) IN
  IF Falsy(options.allowEmptyState) /\ Falsy(state)
  THEN InvalidRequestException("Missing parameter: state")
  ELSE IF ~vschar(state)
  THEN InvalidRequestException("Invalid parameter: state")
  ELSE NoError

\* getResponseType: the error it throws.
getResponseType(request) ==
  LET responseType == Or(request.response_type, request.query_response_type)
  IN
  IF Falsy(responseType)
  THEN InvalidRequestException("Missing parameter: response_type")
  ELSE IF responseType \notin responseTypes
  THEN UnsupportedResponseTypeException(
         "Unsupported response type: response_type is not supported")
  ELSE NoError

\* What model.saveAuthorizationCode does: it returns the code it was given,
\* it returns a code with an authorizationCode of its own, it returns an
\* object without authorizationCode, it returns nothing, or it throws.
SaveAuthorizationCodeOutcomes ==
  {"return", "renamed", "incomplete", "nothing", "throw"}

\* The error thrown after model.saveAuthorizationCode returned: reading
\* code.authorizationCode of nothing is a TypeError, and CodeResponseType's
\* constructor refuses a falsy code.
CodeResponseType_constructor(out) ==
  CASE out \in {"return", "renamed"} -> NoError
    [] out = "incomplete" -> InvalidArgumentException("Missing parameter: code")
    [] out = "nothing" ->
         [name |-> "TypeError", code |-> 0,
          message |-> "Cannot read properties of null"]
    [] OTHER -> ModelFailure

\* The mutant: the query of the redirect URI is replaced by the code.
buildRedirectUri_query_replaced(redirectUri, authorizationCode) ==
  [UrlParse(redirectUri) EXCEPT !.query = {<<"code", authorizationCode>>},
                                !.search = Undefined]

\* CodeResponseType.buildRedirectUri: the parsed URI with the code added to
\* its query and its search cleared.
buildRedirectUri(redirectUri, authorizationCode) ==
  [UrlParse(redirectUri) EXCEPT !.query = @ \cup {<<"code", authorizationCode>>},
                                !.search = Undefined]

\* buildErrorRedirectUri: the parsed URI with its query replaced.
buildErrorRedirectUri(redirectUri, e) ==
  [UrlParse(redirectUri) EXCEPT
     !.query = {<<"error", e.name>>}
               \cup (IF e.message # ""
                     THEN {<<"error_description", e.message>>} ELSE {})]

\* updateResponse: the state is added to the query and the response is
\* redirected to the formatted URI.
updateResponse(response, redirectUri, state) ==
  LET u == [redirectUri EXCEPT !.query =
              @ \cup (IF Truthy(state) THEN {<<"state", state>>} ELSE {})]
  IN [response EXCEPT !.status = 302, !.location = UrlFormat(u)]

(***************************************************************************)
(* OAuth2Server: the options a handler is constructed with.  An options    *)
(* object is a function from the keys it has to their values; numbers are  *)
(* written as strings here.                                                *)
(***************************************************************************)
NoOptions == [k \in {} |-> Undefined]

\* The mutant: a key the left object has keeps its value.
Spread_left_wins(a, b) ==
  [k \in DOMAIN a \cup DOMAIN b |-> IF k \in DOMAIN a THEN a[k] ELSE b[k]]

\* { ...a, ...b }
Spread(a, b) ==
  [k \in DOMAIN a \cup DOMAIN b |-> IF k \in DOMAIN b THEN b[k] ELSE a[k]]

\* The options argument of a call: absent, a string, or an object.
NoArgument == [kind |-> "undefined", value |-> NoOptions]
StringArgument(str) == [kind |-> "string", value |-> str]
ObjectArgument(o) == [kind |-> "object", value |-> o]

\* The defaults of authenticate, authorize and token.
AuthenticateDefaults ==
  [addAcceptedScopesHeader |-> JsTrue, addAuthorizedScopesHeader |-> JsTrue,
   allowBearerTokensInQueryString |-> JsFalse]
AuthorizeDefaults ==
  [allowEmptyState |-> JsFalse, authorizationCodeLifetime |-> "300"]
TokenDefaults ==
  [accessTokenLifetime |-> "3600", refreshTokenLifetime |-> "1209600",
   allowExtendedTokenAttributes |-> JsFalse,
   requireClientAuthentication |-> "{}"]

\* The options authenticate, authorize and token construct their handler
\* with, for the options of the server and the options argument of the call.
Server_authenticate(serverOptions, argument) ==
  LET opt == IF argument.kind = "string"
             THEN [scope |-> argument.value] ELSE argument.value
  IN Spread(Spread(AuthenticateDefaults, serverOptions), opt)
Server_authorize(serverOptions, argument) ==
  Spread(Spread(AuthorizeDefaults, serverOptions), argument.value)
Server_token(serverOptions, argument) ==
  Spread(Spread(TokenDefaults, serverOptions), argument.value)

\* The keys an options argument supplies.
ArgumentKeys(argument) ==
  IF argument.kind = "string" THEN {"scope"} ELSE DOMAIN argument.value

\* The mutant: the options of a call are assigned to the options of the
\* server.
Server_options_assigned(serverOptions, argument) ==
  Spread(serverOptions,
         IF argument.kind = "string"
         THEN [scope |-> argument.value] ELSE argument.value)

\* this.options after a call of authenticate, authorize or token: the options
\* of the handler are a new object, and this.options is only assigned in the
\* constructor.
Server_options(serverOptions, argument) == serverOptions

\* The options of the servers and of the calls considered: every subset of
\* four of the keys, with a value or, in a call, undefined.
VariedKeys ==
  {"accessTokenLifetime", "authorizationCodeLifetime", "allowEmptyState",
   "allowBearerTokensInQueryString"}
ServerValue ==
  [accessTokenLifetime |-> "7200", authorizationCodeLifetime |-> "60",
   allowEmptyState |-> JsTrue, allowBearerTokensInQueryString |-> JsTrue]
CallValue ==
  [accessTokenLifetime |-> "120", authorizationCodeLifetime |-> "30",
   allowEmptyState |-> JsFalse, allowBearerTokensInQueryString |-> JsFalse]
ServerOptionsValues ==
  {[k \in S \cup {"model"} |-> IF k = "model" THEN "model" ELSE ServerValue[k]] :
     S \in SUBSET VariedKeys}
CallOptionsValues ==
  UNION {{[k \in S |-> IF f[k] THEN CallValue[k] ELSE Undefined] :
            f \in [S -> BOOLEAN]} : S \in SUBSET VariedKeys}
CallArguments ==
  {NoArgument} \cup {ObjectArgument(o) : o \in CallOptionsValues}

(***************************************************************************)
(* The state.                                                              *)
(***************************************************************************)
VARIABLES
  now,             \* the clock
  profile,         \* which requests the host sends (fixed by Init)
  modelKind,       \* how the model keeps codes and tokens single-use
  modelMethods,    \* the methods the model implements
  serverCall,      \* the last call of authenticate, authorize or token whose
                   \* options are followed: the operation, the options of
                   \* the server, the options argument and the options the
                   \* handler was constructed with
  revokedCodes,    \* model store: the authorization codes revoked
  exchangedCodes,  \* model store: the authorizationCode of the tokens saved
  revokedTokens,   \* model store: the refresh tokens revoked
  pc,              \* per request: the model call it awaits
  request,         \* per request: the Request
  options,         \* per request: the options of the TokenHandler
  client,          \* per request: what model.getClient returned
  grant,           \* per request: the grant type constructed
  code,            \* per request: what model.getAuthorizationCode returned
                   \* (token) or model.saveAuthorizationCode returned
                   \* (authorize)
  token,           \* per request: what model.getRefreshToken returned
  user,            \* per request: the user the token is issued for
  checkedAt,       \* per request: the new Date() an expiry was compared with
                   \* (token) or computed from (authorize)
  status,          \* per request: what the model's revoke method returned
  replay,          \* per request: whether the authorization code it presents
                   \* had been exchanged for a token when it arrived
  calls,           \* per request: the model methods called, in order
  saved,           \* per request: the arguments of its call of saveToken
  validatedScope,  \* per request: what model.validateScope returned to it
  dates,           \* per request: the Dates of its access token
  error,           \* per request: the error handle rejected with
  response         \* per request: the Response

store == <<revokedCodes, exchangedCodes, revokedTokens>>
config == <<profile, modelKind, modelMethods, serverCall>>
locals ==
  <<request, options, client, grant, code, token, user, checkedAt, status,
    replay, saved, validatedScope>>
vars == <<now, config, store, pc, locals, dates, calls, error, response>>

\* The Dates of the access token of a request: the accessTokenExpiresAt its
\* grant type computed, the one of the token model.saveToken returned, and
\* the new Date() the constructor of TokenModel read.
NoDates == [accessTokenExpiresAt |-> {}, returned |-> {}, built |-> {}]

\* The Response a host passes in.
\* The Location of a redirect: the URI without its query component, and the
\* parameters of its query component.
NoLocation == [base |-> Undefined, params |-> {}]

NewResponse ==
  [status |-> 200, headers |-> {},
   body |-> [error |-> Undefined, error_description |-> Undefined,
             expires_in |-> {}],
   location |-> NoLocation]

Active == {r \in Reqs : pc[r] # "idle"}

\* How many requests the host has in flight at once.
MaxActive == IF profile = "concurrent" THEN NumReq ELSE 1

(***************************************************************************)
(* The requests of a profile.                                              *)
(***************************************************************************)
\* Credentials in the body: two clients that may use the authorization_code
\* and refresh_token grants, one that may not, and an unknown client.
BodyCredentials ==
  {<<"c1", "s1">>, <<"c2", "s2">>, <<"c3", "s3">>, <<"zz", "s1">>}

WithCredentials(cr, grantType) ==
  [BaseRequest EXCEPT !.client_id = cr[1], !.client_secret = cr[2],
                      !.grant_type = grantType]

\* The parameters a grant type reads are varied for the clients that get as
\* far as the grant type.
Reaches(cr, grantType) ==
  cr[1] \in DOMAIN ClientTable /\ grantType \in ClientTable[cr[1]].grants

AuthorizationCodeRequests ==
  {[WithCredentials(cr, "authorization_code") EXCEPT
      !.code = k, !.redirect_uri = u, !.query_redirect_uri = q] :
     cr \in {c \in BodyCredentials : Reaches(c, "authorization_code")},
     k \in {Undefined, NonVschar, "k1", "k2", "k3", "k4", "k9"},
     u \in {Undefined, UriA, UriB, NotAUri},
     q \in {Undefined, UriA}}

RefreshTokenRequests ==
  {[WithCredentials(cr, "refresh_token") EXCEPT !.refresh_token = t,
                                                !.scope = sc] :
     cr \in {c \in BodyCredentials : Reaches(c, "refresh_token")},
     t \in {Undefined, NonVschar, "t1", "t2", "t9"},
     sc \in {Undefined, BadScope}}

PasswordRequests ==
  {[WithCredentials(cr, "password") EXCEPT
      !.username = "alice", !.password = pw, !.scope = sc] :
     cr \in {c \in BodyCredentials : Reaches(c, "password")},
     pw \in {Undefined, "pw", "wrong"},
     sc \in {Undefined, BadScope}}

ClientCredentialsRequests ==
  {[WithCredentials(cr, "client_credentials") EXCEPT !.scope = sc] :
     cr \in {c \in BodyCredentials : Reaches(c, "client_credentials")},
     sc \in {Undefined, "read", BadScope}}

\* Every grant type, one that is not registered and none at all, for every
\* client.
OtherRequests ==
  {[WithCredentials(cr, g) EXCEPT !.code = k, !.refresh_token = t] :
     cr \in BodyCredentials,
     g \in RegisteredGrants \cup {"foo", Undefined},
     k \in {"k2"}, t \in {"t1"}}

\* Every way of sending, or not sending, the client's credentials.
ClientAuthenticationRequests ==
  {[BaseRequest EXCEPT !.grant_type = "client_credentials",
                       !.authorization = a, !.client_id = id,
                       !.client_secret = secret] :
     a \in {Undefined, BasicC1, BasicUnknown, BasicNoName, BasicNoPass,
            BearerHeader},
     id \in {Undefined, "c1", "zz"},
     secret \in {Undefined, "s1"}}

\* Requests that are no POST of a form.
MethodRequests ==
  {[WithCredentials(<<"c1", "s1">>, "client_credentials") EXCEPT
      !.method = m, !.form = f] :
     m \in {"GET", "POST"}, f \in BOOLEAN}
  \ {WithCredentials(<<"c1", "s1">>, "client_credentials")}

Requests ==
  AuthorizationCodeRequests \cup RefreshTokenRequests \cup PasswordRequests
  \cup ClientCredentialsRequests \cup OtherRequests
  \cup ClientAuthenticationRequests \cup MethodRequests

\* Values of the requireClientAuthentication option: the empty map, and maps
\* that list one grant with the value true or false.
RequireClientAuthenticationValues ==
  {[keys |-> {}, required |-> {}],
   [keys |-> {"client_credentials"}, required |-> {}],
   [keys |-> {"client_credentials"}, required |-> {"client_credentials"}],
   [keys |-> {"password"}, required |-> {}]}

\* Authorization requests, with their parameters in the query: every client
\* with every redirect_uri, allowed or denied by the user.
ResolutionRequests ==
  {[BaseRequest EXCEPT !.path = "/authorize", !.method = "GET", !.form = FALSE,
                       !.query_client_id = id, !.query_redirect_uri = u,
                       !.query_allowed = a, !.query_state = "xyz",
                       !.query_response_type = "code"] :
     id \in {Undefined, NonVschar, "c1", "c2", "c3", "c4", "zz"},
     u \in {Undefined, UriA, UriB, UriQ, NotAUri},
     a \in {Undefined, "false", "true"}}

\* Authorization requests of a client that resolves, with every scope, state
\* and response_type.
ParameterRequests ==
  {[BaseRequest EXCEPT !.path = "/authorize", !.method = "GET", !.form = FALSE,
                       !.query_client_id = "c1", !.query_redirect_uri = u,
                       !.query_scope = sc, !.query_state = st,
                       !.query_response_type = rt] :
     u \in {Undefined, UriQ},
     sc \in {Undefined, "read", BadScope},
     st \in {Undefined, "xyz", NonVschar},
     rt \in {Undefined, "code", "token"}}

\* Authorization requests with their parameters in the body, and a
\* redirect_uri in the query as well.
BodyRequests ==
  {[BaseRequest EXCEPT !.path = "/authorize",
                       !.client_id = "c1", !.redirect_uri = u,
                       !.query_redirect_uri = q,
                       !.state = "xyz", !.response_type = "code"] :
     u \in {UriA, UriB}, q \in {UriA, UriB}}

AuthorizeRequests == ResolutionRequests \cup ParameterRequests \cup BodyRequests

\* Requests that present the same authorization codes at the same time.
ConcurrentRequests ==
  {[WithCredentials(<<"c1", "s1">>, "authorization_code") EXCEPT
      !.code = k, !.redirect_uri = UriA] : k \in {"k1", "k2"}}

\* One request that its grant type accepts for every grant type, built-in or
\* extension, and the same requests of an unknown client; and one
\* authorization request.
ConfigurationRequests ==
  {[WithCredentials(cr, g) EXCEPT
      !.code = "k2", !.redirect_uri = UriA, !.refresh_token = "t1",
      !.username = "alice", !.password = "pw"] :
     cr \in {<<"c1", "s1">>, <<"zz", "s1">>}, g \in RegisteredGrants}
ConfigurationAuthorizeRequests ==
  {r \in ResolutionRequests :
     /\ r.query_client_id = "c1" /\ r.query_redirect_uri = UriA
     /\ r.query_allowed = Undefined}

\* The requests the host sends in each profile.
TokenRequestsOf(p) ==
  CASE p = "concurrent" -> ConcurrentRequests
    [] p = "configuration" -> ConfigurationRequests
    [] OTHER -> Requests
AuthorizeRequestsOf(p) ==
  CASE p = "concurrent" -> {}
    [] p = "configuration" -> ConfigurationAuthorizeRequests
    [] OTHER -> AuthorizeRequests

\* The options an authorization request comes with.
AuthorizeOptionsOf(rq) ==
  {[DefaultOptions EXCEPT !.allowEmptyState = a, !.authenticateHandler = h] :
     a \in (IF rq \in ParameterRequests THEN {JsFalse, JsTrue} ELSE {JsFalse}),
     h \in {Undefined, JsOther}}

\* The per-call options a request comes with.
OptionsOf(rq) ==
  {[DefaultOptions EXCEPT !.alwaysIssueNewRefreshToken = a,
                          !.extendedGrantTypes = x,
                          !.requireClientAuthentication = rca] :
     a \in (IF rq.grant_type = "refresh_token"
            THEN {Undefined, JsTrue, JsFalse, JsNull, JsZero, JsOther}
            ELSE {Undefined}),
     x \in (IF rq.grant_type \in BuiltinGrantNames
            THEN {{}} ELSE {{}, {ExtGrant}}),
     rca \in (IF rq \in ClientAuthenticationRequests
              THEN RequireClientAuthenticationValues
              ELSE {DefaultOptions.requireClientAuthentication})}

(***************************************************************************)
(* Init.                                                                   *)
(***************************************************************************)
NoServerCall ==
  [operation |-> "", serverOptions |-> NoOptions, argument |-> NoArgument,
   options |-> NoOptions, previous |-> {}]

InitRequests ==
  /\ pc = [r \in Reqs |-> "idle"]
  /\ request = [r \in Reqs |-> BaseRequest]
  /\ options = [r \in Reqs |-> DefaultOptions]
  /\ client = [r \in Reqs |-> Undefined]
  /\ grant = [r \in Reqs |-> Undefined]
  /\ code = [r \in Reqs |-> Undefined]
  /\ token = [r \in Reqs |-> Undefined]
  /\ user = [r \in Reqs |-> Undefined]
  /\ checkedAt = [r \in Reqs |-> 0]
  /\ status = [r \in Reqs |-> Undefined]
  /\ replay = [r \in Reqs |-> FALSE]
  /\ calls = [r \in Reqs |-> <<>>]
  /\ saved = [r \in Reqs |-> NoSave]
  /\ validatedScope = [r \in Reqs |-> Undefined]
  /\ dates = [r \in Reqs |-> NoDates]
  /\ error = [r \in Reqs |-> NoError]
  /\ response = [r \in Reqs |-> NewResponse]

Init ==
  /\ now = 1
  /\ profile = "sequential"
  /\ modelKind \in ModelKinds
  /\ modelMethods \in {RequiredMethods, RequiredMethods \cup OptionalMethods}
  /\ serverCall = NoServerCall
  /\ revokedCodes = {}
  /\ exchangedCodes = {}
  /\ revokedTokens = {}
  /\ InitRequests

(***************************************************************************)
(* The steps of a token request.                                           *)
(***************************************************************************)
Call(method, args) == [method |-> method, args |-> args]

\* The calls of the optional model methods that saveToken starts.
FanOut(type) ==
  [i \in 1..Len(saveToken_calls(type, modelMethods)) |->
     Call(saveToken_calls(type, modelMethods)[i], <<>>)]

\* The error the constructor of TokenHandler throws.  Server.token supplies
\* the lifetimes and the model.
TokenHandler_constructor(methods) ==
  IF "getClient" \notin methods
  THEN InvalidArgumentException(
         "Invalid argument: model does not implement getClient()")
  ELSE NoError

\* The error handle throws before its try block.
handle_before(rq) ==
  IF rq.method # "POST"
  THEN InvalidRequestException("Invalid request: method must be POST")
  ELSE IF ~rq.form
  THEN InvalidRequestException(
         "Invalid request: content must be application/x-www-form-urlencoded")
  ELSE NoError

\* handle rejects with e from inside its try block: the catch block wraps it
\* and writes it on the response resp.
Reject(r, resp, e) ==
  /\ pc' = [pc EXCEPT ![r] = "done"]
  /\ error' = [error EXCEPT ![r] = handle_catch(e)]
  /\ response' = [response EXCEPT ![r] = updateErrorResponse(resp, handle_catch(e))]

\* The request goes on to await the model call `next`.
Await(r, next) ==
  /\ pc' = [pc EXCEPT ![r] = next]
  /\ UNCHANGED <<error, response>>

\* What a model method does when called: it returns, or it throws.
ModelOutcomes == {"return", "throw"}

\* Server.token: a TokenHandler is constructed for the call and handles the
\* request, up to its call of model.getClient.
Token(r) ==
  /\ pc[r] = "idle"
  /\ \A q \in Reqs : pc[q] = "idle" => r <= q
  /\ Cardinality(Active) < MaxActive
  /\ \E rq \in TokenRequestsOf(profile) : \E op \in OptionsOf(rq) :
       LET e0 == TokenHandler_constructor(modelMethods)
           e1 == handle_before(rq)
           cr == getClient_before(rq, op)
       IN
       /\ request' = [request EXCEPT ![r] = rq]
       /\ options' = [options EXCEPT ![r] = op]
       /\ replay' = [replay EXCEPT ![r] = rq.code \in exchangedCodes]
       /\ IF e0 # NoError \/ e1 # NoError
          THEN /\ pc' = [pc EXCEPT ![r] = "done"]
               /\ error' = [error EXCEPT ![r] = IF e0 # NoError THEN e0 ELSE e1]
               /\ UNCHANGED <<response, calls>>
          ELSE IF cr.error # NoError
          THEN /\ Reject(r, response[r], cr.error)
               /\ UNCHANGED calls
          ELSE /\ Await(r, "getClient")
               /\ calls' = [calls EXCEPT ![r] =
                    <<Call("getClient", <<cr.clientId, cr.clientSecret>>)>>]
  /\ UNCHANGED <<now, config, store, client, grant, code, token, user,
                 checkedAt, status, saved, validatedScope, dates>>

\* What handleGrantType and the handle of the grant type it constructs do
\* before the grant type's first await: the error thrown, or the model call
\* awaited; and the grant type constructed.
Dispatch(rq, op, c, methods) ==
  LET g == rq.grant_type
      e1 == handleGrantType(rq, op, c)
      e2 == IF g \in BuiltinGrantNames
            THEN GrantType_constructor(g, methods) ELSE NoError
      stop(e, type) == [error |-> e, grant |-> type, call |-> Call("", <<>>)]
      go(m, args) == [error |-> NoError, grant |-> g, call |-> Call(m, args)]
  IN
  IF e1 # NoError THEN stop(e1, Undefined)
  ELSE IF e2 # NoError THEN stop(e2, g)
  ELSE IF g = "authorization_code"
  THEN IF getAuthorizationCode_before(rq) # NoError
       THEN stop(getAuthorizationCode_before(rq), g)
       ELSE go("getAuthorizationCode", <<rq.code>>)
  ELSE IF g = "refresh_token"
  THEN IF getRefreshToken_before(rq) # NoError
       THEN stop(getRefreshToken_before(rq), g)
       ELSE go("getRefreshToken", <<rq.refresh_token>>)
  ELSE IF g = "password"
  THEN IF getScope(rq) # NoError THEN stop(getScope(rq), g)
       ELSE IF getUser_before(rq) # NoError THEN stop(getUser_before(rq), g)
       ELSE go("getUser", <<rq.username, rq.password>>)
  ELSE IF g = "client_credentials"
  THEN IF getScope(rq) # NoError THEN stop(getScope(rq), g)
       ELSE go("getUserFromClient", <<c>>)
  ELSE go("extension", <<>>)

\* model.getClient returns: the rest of getClient, then handleGrantType.
GetClientReturns(r) ==
  /\ pc[r] = "getClient"
  /\ \E out \in ModelOutcomes :
       LET cr == getClient_before(request[r], options[r])
           c == IF out = "throw" THEN Undefined
                ELSE model_getClient(cr.clientId, cr.clientSecret)
           thrown == IF out = "throw" THEN ModelFailure ELSE NoError
           e == getClient_after(request[r], c, thrown)
           resp == [response[r] EXCEPT !.headers =
                      @ \cup getClient_headers(request[r], c, thrown)]
           d == Dispatch(request[r], options[r], c, modelMethods)
       IN
       /\ client' = [client EXCEPT ![r] = c]
       /\ IF e # NoError
          THEN /\ Reject(r, resp, e)
               /\ UNCHANGED <<grant, calls>>
          ELSE /\ grant' = [grant EXCEPT ![r] = d.grant]
               /\ IF d.error # NoError
                  THEN /\ Reject(r, resp, d.error)
                       /\ UNCHANGED calls
                  ELSE /\ Await(r, d.call.method)
                       /\ calls' = [calls EXCEPT ![r] =
                            IF d.call.method = "extension" THEN @
                            ELSE Append(@, d.call)]
  /\ UNCHANGED <<now, config, store, request, options, code, token, user,
                 checkedAt, status, replay, saved, validatedScope, dates>>

\* The grant type calls its saveToken: the optional model methods are called
\* and awaited together.
StartSaveToken(r, u) ==
  /\ Await(r, "promiseAll")
  /\ user' = [user EXCEPT ![r] = u]
  /\ dates' = [dates EXCEPT ![r].accessTokenExpiresAt =
       {getAccessTokenExpiresAt(getAccessTokenLifetime(client[r], options[r]),
                                Date(now))}]
  /\ calls' = [calls EXCEPT ![r] = @ \o FanOut(grant[r])]

\* The mutant: handle does not revoke the code before it saves the token.
GetAuthorizationCodeReturns_no_revoke(r) ==
  /\ pc[r] = "getAuthorizationCode"
  /\ \E out \in ModelOutcomes :
       LET k == IF out = "throw" THEN Undefined
                ELSE model_getAuthorizationCode(modelKind, revokedCodes,
                                                request[r].code)
           e1 == IF out = "throw" THEN ModelFailure
                 ELSE getAuthorizationCode_after(client[r], k, now)
           e2 == IF e1 # NoError THEN e1 ELSE validateRedirectUri(request[r], k)
       IN
       /\ code' = [code EXCEPT ![r] = k]
       /\ checkedAt' = [checkedAt EXCEPT ![r] = now]
       /\ IF e2 # NoError
          THEN /\ Reject(r, response[r], e2)
               /\ UNCHANGED <<calls, user, dates>>
          ELSE StartSaveToken(r, CodeTable[k].user)
  /\ UNCHANGED <<now, config, store, request, options, client, grant, token,
                 status, replay, saved, validatedScope>>

\* model.getAuthorizationCode returns: the rest of getAuthorizationCode, then
\* validateRedirectUri, then the call of model.revokeAuthorizationCode.
GetAuthorizationCodeReturns(r) ==
  /\ pc[r] = "getAuthorizationCode"
  /\ \E out \in ModelOutcomes :
       LET k == IF out = "throw" THEN Undefined
                ELSE model_getAuthorizationCode(modelKind, revokedCodes,
                                                request[r].code)
           e1 == IF out = "throw" THEN ModelFailure
                 ELSE getAuthorizationCode_after(client[r], k, now)
           e2 == IF e1 # NoError THEN e1 ELSE validateRedirectUri(request[r], k)
       IN
       /\ code' = [code EXCEPT ![r] = k]
       /\ checkedAt' = [checkedAt EXCEPT ![r] = now]
       /\ IF e2 # NoError
          THEN /\ Reject(r, response[r], e2)
               /\ UNCHANGED <<calls, user, dates>>
          ELSE /\ Await(r, "revokeAuthorizationCode")
               /\ calls' = [calls EXCEPT ![r] =
                    Append(@, Call("revokeAuthorizationCode", <<k>>))]
               /\ UNCHANGED <<user, dates>>
  /\ UNCHANGED <<now, config, store, request, options, client, grant, token,
                 status, replay, saved, validatedScope>>

\* model.revokeAuthorizationCode returns: the rest of revokeAuthorizationCode,
\* then saveToken up to its Promise.all.
RevokeAuthorizationCodeReturns(r) ==
  /\ pc[r] = "revokeAuthorizationCode"
  /\ \E out \in ModelOutcomes :
       LET st == model_revokeAuthorizationCode(revokedCodes, code[r])
           e == IF out = "throw" THEN ModelFailure
                ELSE revokeAuthorizationCode(st)
       IN
       /\ revokedCodes' = IF out = "throw" THEN revokedCodes
                          ELSE revokedCodes \cup {code[r]}
       /\ status' = [status EXCEPT ![r] =
                       IF out = "throw" THEN Undefined ELSE st]
       /\ IF e # NoError
          THEN /\ Reject(r, response[r], e)
               /\ UNCHANGED <<calls, user, dates>>
          ELSE StartSaveToken(r, CodeTable[code[r]].user)
  /\ UNCHANGED <<now, config, exchangedCodes, revokedTokens, request, options,
                 client, grant, code, token, checkedAt, replay, saved, validatedScope>>

\* model.getRefreshToken returns: the rest of getRefreshToken, then
\* revokeToken up to its call of model.revokeToken or, when it returns without
\* calling it, saveToken up to its Promise.all.
GetRefreshTokenReturns(r) ==
  /\ pc[r] = "getRefreshToken"
  /\ \E out \in ModelOutcomes :
       LET t == IF out = "throw" THEN Undefined
                ELSE model_getRefreshToken(modelKind, revokedTokens,
                                           request[r].refresh_token)
           e == IF out = "throw" THEN ModelFailure
                ELSE getRefreshToken_after(client[r], t, now)
           always == TokenHandler_alwaysIssueNewRefreshToken(options[r])
       IN
       /\ token' = [token EXCEPT ![r] = t]
       /\ checkedAt' = [checkedAt EXCEPT ![r] = now]
       /\ IF e # NoError
          THEN /\ Reject(r, response[r], e)
               /\ UNCHANGED <<calls, user, dates>>
          ELSE IF revokeToken_skipped(always)
          THEN StartSaveToken(r, RefreshTokenTable[t].user)
          ELSE /\ Await(r, "revokeToken")
               /\ calls' = [calls EXCEPT ![r] =
                    Append(@, Call("revokeToken", <<t>>))]
               /\ UNCHANGED <<user, dates>>
  /\ UNCHANGED <<now, config, store, request, options, client, grant, code,
                 status, replay, saved, validatedScope>>

\* model.revokeToken returns: the rest of revokeToken, then saveToken up to
\* its Promise.all.
RevokeTokenReturns(r) ==
  /\ pc[r] = "revokeToken"
  /\ \E out \in ModelOutcomes :
       LET st == model_revokeToken(revokedTokens, token[r])
           e == IF out = "throw" THEN ModelFailure ELSE revokeToken(st)
       IN
       /\ revokedTokens' = IF out = "throw" THEN revokedTokens
                           ELSE revokedTokens \cup {token[r]}
       /\ status' = [status EXCEPT ![r] =
                       IF out = "throw" THEN Undefined ELSE st]
       /\ IF e # NoError
          THEN /\ Reject(r, response[r], e)
               /\ UNCHANGED <<calls, user, dates>>
          ELSE StartSaveToken(r, RefreshTokenTable[token[r]].user)
  /\ UNCHANGED <<now, config, revokedCodes, exchangedCodes, request, options,
                 client, grant, code, token, checkedAt, replay, saved, validatedScope>>

\* model.getUser returns (password grant) or model.getUserFromClient returns
\* (client_credentials grant): the user is checked, then saveToken up to its
\* Promise.all.
GetUserReturns(r) ==
  /\ pc[r] \in {"getUser", "getUserFromClient"}
  /\ \E out \in ModelOutcomes, found \in {"u1", JsNull} :
       LET u == IF pc[r] = "getUser"
                THEN model_getUser(request[r].username, request[r].password)
                ELSE found
           e == IF out = "throw" THEN ModelFailure ELSE getUser_after(u)
       IN
       IF e # NoError
       THEN /\ Reject(r, response[r], e)
            /\ UNCHANGED <<calls, user, dates>>
       ELSE StartSaveToken(r, u)
  /\ UNCHANGED <<now, config, store, request, options, client, grant, code,
                 token, checkedAt, status, replay, saved, validatedScope>>

\* The mutant: the refresh_token grant takes the scope of the request.
GrantScope_of_request(r) ==
  CASE grant[r] = "authorization_code" -> CodeTable[code[r]].scope
    [] OTHER -> request[r].scope

\* The scope handle passes to saveToken: the scope of the code or refresh
\* token, or the scope of the request.
GrantScope(r) ==
  CASE grant[r] = "authorization_code" -> CodeTable[code[r]].scope
    [] grant[r] = "refresh_token" -> RefreshTokenTable[token[r]].scope
    [] OTHER -> request[r].scope

\* Promise.all settles: it rejects, or the token is built and model.saveToken
\* is called with it.
PromiseAllSettles(r) ==
  /\ pc[r] = "promiseAll"
  /\ \E sc \in (IF "validateScope"
                    \in Elements(saveToken_calls(grant[r], modelMethods))
                 THEN model_validateScope(GrantScope(r)) ELSE {Undefined}) :
     \E e \in saveToken_settles(grant[r], modelMethods, sc) :
       /\ validatedScope' = [validatedScope EXCEPT ![r] = sc]
       /\ IF e # NoError
          THEN /\ Reject(r, response[r], e)
               /\ UNCHANGED <<calls, saved>>
          ELSE
            LET accessScope == validateScope(grant[r], modelMethods,
                                             GrantScope(r), sc)
            IN
            /\ Await(r, "saveToken")
            /\ calls' = [calls EXCEPT ![r] = Append(@, Call("saveToken", <<>>))]
            /\ saved' = [saved EXCEPT ![r] =
                 SaveArgs(saveToken_keys(grant[r],
                            TokenHandler_alwaysIssueNewRefreshToken(options[r])),
                          IF grant[r] = "authorization_code"
                          THEN CodeTable[code[r]].authorizationCode
                          ELSE Undefined,
                          accessScope, client[r], user[r])]
  /\ UNCHANGED <<now, config, store, request, options, client, grant, code,
                 token, user, checkedAt, status, replay, dates>>

\* What model.saveToken does: it persists the token and returns it with its
\* client and user; it returns it with an accessTokenExpiresAt of its own, a
\* second later; it returns it without accessTokenExpiresAt; it persists it
\* and returns it without client and user; or it throws.
SaveTokenOutcomes == {"return", "rewritten", "undated", "incomplete", "throw"}

\* The accessTokenExpiresAt of the token model.saveToken returns.
model_saveToken_accessTokenExpiresAt(out, given) ==
  CASE out = "rewritten" -> {e + 1000 : e \in given}
    [] out = "undated" -> {}
    [] OTHER -> given

\* updateSuccessResponse with BearerTokenType.valueOf: expires_in is the
\* accessTokenLifetime of the TokenModel.
updateSuccessResponse(resp, accessTokenLifetime) ==
  [resp EXCEPT !.body.expires_in = accessTokenLifetime,
               !.headers = @ \cup {<<"Cache-Control", "no-store">>,
                                   <<"Pragma", "no-cache">>}]

\* model.saveToken returns: handle wraps the token in a TokenModel and writes
\* the response.
SaveTokenReturns(r) ==
  /\ pc[r] = "saveToken"
  /\ \E out \in SaveTokenOutcomes :
       LET dataKeys == saved[r].keys
                       \cup (IF out # "incomplete"
                             THEN {"client", "user"} ELSE {})
           e == IF out = "throw" THEN ModelFailure ELSE TokenModel(dataKeys)
           returned == model_saveToken_accessTokenExpiresAt(
                         out, dates[r].accessTokenExpiresAt)
       IN
       /\ exchangedCodes' =
            IF out # "throw" /\ "authorizationCode" \in saved[r].keys
            THEN exchangedCodes \cup {saved[r].authorizationCode}
            ELSE exchangedCodes
       /\ IF e # NoError
          THEN Reject(r, response[r], e) /\ UNCHANGED dates
          ELSE /\ pc' = [pc EXCEPT ![r] = "done"]
               /\ dates' = [dates EXCEPT ![r].returned = returned,
                                         ![r].built = {Date(now)}]
               /\ response' = [response EXCEPT ![r] =
                    updateSuccessResponse(@,
                      TokenModel_accessTokenLifetime(returned, Date(now)))]
               /\ UNCHANGED error
  /\ UNCHANGED <<now, config, revokedCodes, revokedTokens, locals, calls>>

\* The handle of an extension grant type returns: it is the host's code, and
\* it returns a token or throws.
ExtensionReturns(r) ==
  /\ pc[r] = "extension"
  /\ \E out \in SaveTokenOutcomes :
       LET dataKeys == {"accessToken"}
                       \cup (IF out # "incomplete"
                             THEN {"client", "user"} ELSE {})
           e == IF out = "throw" THEN ModelFailure ELSE TokenModel(dataKeys)
       IN
       IF e # NoError
       THEN Reject(r, response[r], e)
       ELSE /\ pc' = [pc EXCEPT ![r] = "done"]
            /\ response' = [response EXCEPT ![r] =
                 updateSuccessResponse(@, {})]
            /\ UNCHANGED error
  /\ UNCHANGED <<now, config, store, locals, calls, dates>>

(***************************************************************************)
(* The steps of an authorization request.                                  *)
(***************************************************************************)
\* The error the constructor of AuthorizeHandler throws.  Server.authorize
\* supplies the lifetime and the model.
AuthorizeHandler_constructor(methods) ==
  IF "getClient" \notin methods
  THEN InvalidArgumentException(
         "Invalid argument: model does not implement getClient()")
  ELSE IF "saveAuthorizationCode" \notin methods
  THEN InvalidArgumentException(
         "Invalid argument: model does not implement saveAuthorizationCode()")
  ELSE NoError

\* handle rejects with e before its try block: the response is not written.
Throw(r, e) ==
  /\ pc' = [pc EXCEPT ![r] = "done"]
  /\ error' = [error EXCEPT ![r] = e]
  /\ UNCHANGED response

\* handle rejects with e from inside its try block: the catch block wraps it,
\* redirects to the redirect URI with it and the state st, and rethrows it.
RejectWithRedirect(r, c, e, st) ==
  /\ pc' = [pc EXCEPT ![r] = "done"]
  /\ error' = [error EXCEPT ![r] = handle_catch(e)]
  /\ response' = [response EXCEPT ![r] =
       updateResponse(@, buildErrorRedirectUri(getRedirectUri(request[r], c),
                                               handle_catch(e)), st)]

\* The user the authenticate handler returns, the authorization code
\* model.generateAuthorizationCode returns and the one
\* tokenUtil.GenerateRandomToken returns.
AuthenticatedUser == "u1"
GeneratedCode == "kg"
RandomToken == "kr"

\* From the return of generateAuthorizationCode to the call of
\* model.saveAuthorizationCode.
AfterGenerate(r, c, log, authorizationCode) ==
  LET rq == request[r]
      st == Or(rq.state, rq.query_state)
      expiresAt == getAuthorizationCodeLifetime(options[r], Date(checkedAt[r]))
  IN
  IF getState(rq, options[r]) # NoError
  THEN /\ RejectWithRedirect(r, c, getState(rq, options[r]), Undefined)
       /\ calls' = [calls EXCEPT ![r] = log]
  ELSE IF getResponseType(rq) # NoError
  THEN /\ RejectWithRedirect(r, c, getResponseType(rq), st)
       /\ calls' = [calls EXCEPT ![r] = log]
  ELSE /\ Await(r, "saveAuthorizationCode")
       /\ calls' = [calls EXCEPT ![r] =
            Append(log, Call("saveAuthorizationCode",
                             <<authorizationCode, expiresAt,
                               getRedirectUri(rq, c),
                               Or(rq.scope, rq.query_scope), c,
                               AuthenticatedUser>>))]

\* From the return of Promise.all, with the client c, to the next await.
AfterResolved(r, c) ==
  IF Authorize_getScope(request[r]) # NoError
  THEN /\ RejectWithRedirect(r, c, Authorize_getScope(request[r]), Undefined)
       /\ UNCHANGED calls
  ELSE IF "generateAuthorizationCode" \in modelMethods
  THEN /\ Await(r, "generateAuthorizationCode")
       /\ calls' = [calls EXCEPT ![r] =
            Append(@, Call("generateAuthorizationCode", <<c>>))]
  ELSE AfterGenerate(r, c, calls[r], RandomToken)

\* Server.authorize: an AuthorizeHandler is constructed for the call and
\* handles the request, up to its Promise.all of the client and the user.
Authorize(r) ==
  /\ pc[r] = "idle"
  /\ \A q \in Reqs : pc[q] = "idle" => r <= q
  /\ Cardinality(Active) < MaxActive
  /\ \E rq \in AuthorizeRequestsOf(profile) :
     \E op \in AuthorizeOptionsOf(rq) :
       LET e0 == AuthorizeHandler_constructor(modelMethods)
           e1 == Authorize_handle_before(rq)
           e2 == Authorize_getClient_before(rq)
           authenticate == Call("authenticateHandler.handle", <<>>)
       IN
       /\ request' = [request EXCEPT ![r] = rq]
       /\ options' = [options EXCEPT ![r] = op]
       /\ checkedAt' = [checkedAt EXCEPT ![r] =
            IF e0 # NoError \/ e1 # NoError THEN @ ELSE now]
       /\ IF e0 # NoError \/ e1 # NoError
          THEN /\ Throw(r, IF e0 # NoError THEN e0 ELSE e1)
               /\ UNCHANGED calls
          ELSE IF e2 # NoError
          THEN /\ Throw(r, e2)
               /\ calls' = [calls EXCEPT ![r] = <<authenticate>>]
          ELSE /\ Await(r, "client and user")
               /\ calls' = [calls EXCEPT ![r] =
                    <<Call("getClient",
                           <<Or(rq.client_id, rq.query_client_id)>>),
                      authenticate>>]
  /\ UNCHANGED <<now, config, store, client, grant, code, token, user,
                 status, replay, saved, validatedScope, dates>>

\* model.getClient returns to getClient of AuthorizeHandler.
AuthorizeGetClientReturns(r) ==
  /\ pc[r] \in {"client and user", "client"}
  /\ \E out \in ModelOutcomes :
       LET rq == request[r]
           c == IF out = "throw" THEN Undefined
                ELSE model_getClient(Or(rq.client_id, rq.query_client_id),
                                     Undefined)
           thrown == IF out = "throw" THEN ModelFailure ELSE NoError
           e == Authorize_getClient_after(rq, c, thrown)
       IN
       /\ client' = [client EXCEPT ![r] = c]
       /\ IF e # NoError
          THEN Throw(r, e) /\ UNCHANGED calls
          ELSE IF pc[r] = "client and user"
          THEN Await(r, "user") /\ UNCHANGED calls
          ELSE AfterResolved(r, c)
  /\ UNCHANGED <<now, config, store, request, options, grant, code, token,
                 user, checkedAt, status, replay, saved, validatedScope, dates>>

\* The authenticate handler returns to getUser.
AuthenticateReturns(r) ==
  /\ pc[r] \in {"client and user", "user"}
  /\ \E out \in AuthenticateOutcomes :
       LET e == Authorize_getUser_after(options[r], out) IN
       /\ user' = [user EXCEPT ![r] =
            IF out = "user" THEN AuthenticatedUser
            ELSE IF out = "nothing" THEN JsNull ELSE Undefined]
       /\ IF e # NoError
          THEN Throw(r, e) /\ UNCHANGED calls
          ELSE IF pc[r] = "client and user"
          THEN Await(r, "client") /\ UNCHANGED calls
          ELSE AfterResolved(r, client[r])
  /\ UNCHANGED <<now, config, store, request, options, client, grant, code,
                 token, checkedAt, status, replay, saved, validatedScope, dates>>

\* model.generateAuthorizationCode returns.
GenerateAuthorizationCodeReturns(r) ==
  /\ pc[r] = "generateAuthorizationCode"
  /\ \E out \in ModelOutcomes :
       IF out = "throw"
       THEN /\ RejectWithRedirect(r, client[r], ModelFailure, Undefined)
            /\ UNCHANGED calls
       ELSE AfterGenerate(r, client[r], calls[r], GeneratedCode)
  /\ UNCHANGED <<now, config, store, locals, dates>>

\* The authorizationCode of the code a model returns when it returns one of
\* its own.
NewCode == "kn"

\* model.saveAuthorizationCode returns: the response is redirected to the
\* redirect URI with the authorizationCode of what it returned and the state.
SaveAuthorizationCodeReturns(r) ==
  /\ pc[r] = "saveAuthorizationCode"
  /\ \E out \in SaveAuthorizationCodeOutcomes :
       LET rq == request[r]
           st == Or(rq.state, rq.query_state)
           e == CodeResponseType_constructor(out)
           given == calls[r][Len(calls[r])].args[1]
           returned == IF out = "renamed" THEN NewCode ELSE given
       IN
       IF e # NoError
       THEN RejectWithRedirect(r, client[r], e, st) /\ UNCHANGED code
       ELSE /\ pc' = [pc EXCEPT ![r] = "done"]
            /\ code' = [code EXCEPT ![r] = returned]
            /\ response' = [response EXCEPT ![r] =
                 updateResponse(@, buildRedirectUri(
                                     getRedirectUri(rq, client[r]), returned),
                                st)]
            /\ UNCHANGED error
  /\ UNCHANGED <<now, config, store, request, options, client, grant, token,
                 user, checkedAt, status, replay, saved, validatedScope, calls, dates>>

\* The host is done with the request and its response.
Complete(r) ==
  /\ pc[r] = "done"
  /\ pc' = [pc EXCEPT ![r] = "idle"]
  /\ request' = [request EXCEPT ![r] = BaseRequest]
  /\ options' = [options EXCEPT ![r] = DefaultOptions]
  /\ client' = [client EXCEPT ![r] = Undefined]
  /\ grant' = [grant EXCEPT ![r] = Undefined]
  /\ code' = [code EXCEPT ![r] = Undefined]
  /\ token' = [token EXCEPT ![r] = Undefined]
  /\ user' = [user EXCEPT ![r] = Undefined]
  /\ checkedAt' = [checkedAt EXCEPT ![r] = 0]
  /\ status' = [status EXCEPT ![r] = Undefined]
  /\ replay' = [replay EXCEPT ![r] = FALSE]
  /\ calls' = [calls EXCEPT ![r] = <<>>]
  /\ saved' = [saved EXCEPT ![r] = NoSave]
  /\ validatedScope' = [validatedScope EXCEPT ![r] = Undefined]
  /\ dates' = [dates EXCEPT ![r] = NoDates]
  /\ error' = [error EXCEPT ![r] = NoError]
  /\ response' = [response EXCEPT ![r] = NewResponse]
  /\ UNCHANGED <<now, config, store>>

\* Time passes.
Tick ==
  /\ now < MaxTime
  /\ now' = now + 1
  /\ UNCHANGED <<config, store, pc, locals, calls, error, response, dates>>

Next ==
  \/ \E r \in Reqs : Token(r)
  \/ \E r \in Reqs : GetClientReturns(r)
  \/ \E r \in Reqs : GetAuthorizationCodeReturns(r)
  \/ \E r \in Reqs : RevokeAuthorizationCodeReturns(r)
  \/ \E r \in Reqs : GetRefreshTokenReturns(r)
  \/ \E r \in Reqs : RevokeTokenReturns(r)
  \/ \E r \in Reqs : GetUserReturns(r)
  \/ \E r \in Reqs : PromiseAllSettles(r)
  \/ \E r \in Reqs : SaveTokenReturns(r)
  \/ \E r \in Reqs : ExtensionReturns(r)
  \/ \E r \in Reqs : Authorize(r)
  \/ \E r \in Reqs : AuthorizeGetClientReturns(r)
  \/ \E r \in Reqs : AuthenticateReturns(r)
  \/ \E r \in Reqs : GenerateAuthorizationCodeReturns(r)
  \/ \E r \in Reqs : SaveAuthorizationCodeReturns(r)
  \/ \E r \in Reqs : Complete(r)
  \/ Tick

Spec == Init /\ [][Next]_vars

\* The host runs a model that lacks one of the methods.
InitConfiguration ==
  /\ now = 1
  /\ profile = "configuration"
  /\ modelKind = "refuses"
  /\ modelMethods \in {(RequiredMethods \cup OptionalMethods) \ {m} :
                         m \in RequiredMethods}
  /\ serverCall = NoServerCall
  /\ revokedCodes = {}
  /\ exchangedCodes = {}
  /\ revokedTokens = {}
  /\ InitRequests

SpecConfiguration == InitConfiguration /\ [][Next]_vars

\* The host constructs servers and calls authenticate, authorize and token
\* with options.
InitOptions ==
  /\ now = 1
  /\ profile = "options"
  /\ modelKind = "refuses"
  /\ modelMethods = RequiredMethods
  /\ serverCall \in {[NoServerCall EXCEPT !.serverOptions = so] :
                       so \in ServerOptionsValues}
  /\ revokedCodes = {}
  /\ exchangedCodes = {}
  /\ revokedTokens = {}
  /\ InitRequests

\* The keys of which it is remembered whether the call before supplied them.
FollowedKeys == {"accessTokenLifetime"}

\* A call of the server with an options argument: the handler is constructed
\* with opts.
Called_with(operation, argument, opts) ==
  /\ serverCall' =
       [operation |-> operation,
        serverOptions |-> Server_options(serverCall.serverOptions, argument),
        argument |-> argument, options |-> opts,
        previous |-> ArgumentKeys(serverCall.argument) \cap FollowedKeys]
  /\ UNCHANGED <<now, profile, modelKind, modelMethods, store, pc, locals,
                 dates, calls, error, response>>

Authenticate_options ==
  \E a \in CallArguments \cup {StringArgument("read")} :
    Called_with("authenticate", a,
                Server_authenticate(serverCall.serverOptions, a))

Authorize_options ==
  \E a \in CallArguments :
    Called_with("authorize", a, Server_authorize(serverCall.serverOptions, a))

Token_options ==
  \E a \in CallArguments :
    Called_with("token", a, Server_token(serverCall.serverOptions, a))

NextOptions == Authenticate_options \/ Authorize_options \/ Token_options

SpecOptions == InitOptions /\ [][NextOptions]_vars

\* The host sends NumReq token requests at the same time.
InitConcurrent ==
  /\ now = 1
  /\ profile = "concurrent"
  /\ modelKind \in ModelKinds
  /\ modelMethods = RequiredMethods
  /\ serverCall = NoServerCall
  /\ revokedCodes = {}
  /\ exchangedCodes = {}
  /\ revokedTokens = {}
  /\ InitRequests

NextConcurrent ==
  \/ \E r \in Reqs : Token(r)
  \/ \E r \in Reqs : GetClientReturns(r)
  \/ \E r \in Reqs : GetAuthorizationCodeReturns(r)
  \/ \E r \in Reqs : RevokeAuthorizationCodeReturns(r)
  \/ \E r \in Reqs : PromiseAllSettles(r)
  \/ \E r \in Reqs : SaveTokenReturns(r)
  \/ Tick

SpecConcurrent == InitConcurrent /\ [][NextConcurrent]_vars

(***************************************************************************)
(* Properties.                                                             *)
(***************************************************************************)
Done(r) == pc[r] = "done"

\* The positions in the calls of request r at which it called method m.
CallsOf(r, m) == {i \in 1..Len(calls[r]) : calls[r][i].method = m}
Called(r, m) == CallsOf(r, m) # {}

Failed(r, name, httpStatus) ==
  Done(r) /\ error[r].name = name /\ error[r].code = httpStatus

\* A model method threw during request r.
ModelThrew(r) == Done(r) /\ error[r].message = ModelFailure.message

\* The redirect_uri request r carries, and whether it is a valid URI equal to
\* the redirectUri of the code the model returned.
CarriedRedirectUri(r) ==
  Or(request[r].redirect_uri, request[r].query_redirect_uri)
RedirectUriMatches(r) ==
  /\ uri(CarriedRedirectUri(r))
  /\ CarriedRedirectUri(r) = CodeTable[code[r]].redirectUri

\* Request r was dispatched to the authorization_code (refresh_token) grant
\* and the model returned the code (refresh token) it presents.
GotCode(r) == grant[r] = "authorization_code" /\ Truthy(code[r])
GotRefreshToken(r) == grant[r] = "refresh_token" /\ Truthy(token[r])

\* C1, as stated: a request dispatched to the authorization_code grant that
\* presents a code already exchanged for a token fails with invalid_grant
\* (400) and does not call model.saveToken (no model method throwing).
C1_ReplayIsInvalidGrant ==
  \A r \in Reqs :
    Done(r) /\ grant[r] = "authorization_code" /\ replay[r] /\ ~ModelThrew(r)
    => Failed(r, "invalid_grant", 400) /\ ~Called(r, "saveToken")

\* C1, amended: such a request fails and does not call model.saveToken; it
\* fails with invalid_grant (400), except that it fails with invalid_request
\* (400) when the model still returns the revoked code, the code is the
\* client's and unexpired, and the request's redirect_uri is missing, invalid
\* or different from the code's redirectUri.
C1_ReplayFails ==
  \A r \in Reqs :
    grant[r] = "authorization_code" /\ replay[r]
    => /\ ~Called(r, "saveToken")
       /\ Done(r) => error[r] # NoError
       /\ Done(r) /\ ~ModelThrew(r)
          => \/ Failed(r, "invalid_grant", 400)
             \/ /\ Failed(r, "invalid_request", 400)
                /\ Truthy(code[r])
                /\ CodeTable[code[r]].client = client[r]
                /\ CodeTable[code[r]].expiresAt >= checkedAt[r]
                /\ Truthy(CodeTable[code[r]].redirectUri)
                /\ ~RedirectUriMatches(r)
       /\ Done(r) /\ ~ModelThrew(r) /\ Truthy(code[r])
          /\ (Falsy(CodeTable[code[r]].redirectUri) \/ RedirectUriMatches(r))
          => Failed(r, "invalid_grant", 400)

\* C1, witness: a replayed code that the model still returns gets as far as
\* model.revokeAuthorizationCode, which refuses it.
C1_Witness ==
  \E r \in Reqs :
    /\ replay[r] /\ Failed(r, "invalid_grant", 400)
    /\ Called(r, "revokeAuthorizationCode") /\ status[r] = JsFalse
    /\ request[r].code \in exchangedCodes

\* C2: in the authorization_code grant model.revokeAuthorizationCode and
\* model.saveToken are each called at most once; saveToken is called only
\* after the one call of revokeAuthorizationCode has returned true; from then
\* on the code is revoked, whether the request then fails or not; and the
\* request succeeds only if saveToken was called.
C2_RevokeBeforeSave ==
  \A r \in Reqs :
    grant[r] = "authorization_code"
    => /\ Cardinality(CallsOf(r, "revokeAuthorizationCode")) <= 1
       /\ Cardinality(CallsOf(r, "saveToken")) <= 1
       /\ Called(r, "saveToken")
          => /\ Cardinality(CallsOf(r, "revokeAuthorizationCode")) = 1
             /\ \A i \in CallsOf(r, "revokeAuthorizationCode") :
                  \A j \in CallsOf(r, "saveToken") : i < j
             /\ status[r] = JsTrue
       /\ pc[r] \in {"promiseAll", "saveToken"}
          => Called(r, "revokeAuthorizationCode") /\ status[r] = JsTrue
       /\ status[r] = JsTrue => code[r] \in revokedCodes
       /\ Done(r) /\ error[r] = NoError => Called(r, "saveToken")

\* C2, witness: the code was revoked and model.saveToken then threw: the
\* request has failed, no token was saved and the code is revoked.
C2_Witness ==
  \E r \in Reqs :
    /\ grant[r] = "authorization_code" /\ ModelThrew(r)
    /\ Called(r, "saveToken") /\ status[r] = JsTrue
    /\ code[r] \in revokedCodes /\ code[r] \notin exchangedCodes

\* Request r presented a code that exists, belongs to the authenticated
\* client and was not expired when the grant looked at it.
PresentedOwnUnexpiredCode(r) ==
  /\ Done(r) /\ GotCode(r)
  /\ CodeTable[code[r]].client = client[r]
  /\ CodeTable[code[r]].expiresAt >= checkedAt[r]

RevokeCalledFor(r) ==
  \E i \in 1..Len(calls[r]) :
    calls[r][i] = Call("revokeAuthorizationCode", <<code[r]>>)

\* C3, as stated: every request that presents an existing, unexpired code of
\* the authenticated client ends with model.revokeAuthorizationCode called
\* for that code.
C3_RevokedOnFirstUse ==
  \A r \in Reqs : PresentedOwnUnexpiredCode(r) => RevokeCalledFor(r)

\* C3, amended: such a request ends with model.revokeAuthorizationCode called
\* for the code exactly when the code has no redirectUri or the request's
\* redirect_uri is a valid URI equal to it, whether or not a token is then
\* issued; a request rejected for its redirect_uri leaves the code unrevoked.
C3_RevokedOnceRedirectUriMatches ==
  \A r \in Reqs :
    PresentedOwnUnexpiredCode(r)
    => (RevokeCalledFor(r)
        <=> (Falsy(CodeTable[code[r]].redirectUri) \/ RedirectUriMatches(r)))

\* C3, witness: the code was revoked and the request was then rejected for
\* its scope.
C3_Witness ==
  \E r \in Reqs :
    /\ PresentedOwnUnexpiredCode(r) /\ RevokeCalledFor(r)
    /\ code[r] \in revokedCodes /\ Failed(r, "invalid_scope", 400)

\* C4: a request presenting an authorization code whose expiresAt is earlier
\* than the time of the check, or a refresh token whose refreshTokenExpiresAt
\* is set and earlier than it, fails with invalid_grant (400) and calls
\* neither the revocation method nor model.saveToken.
C4_ExpiredIsInvalidGrant ==
  \A r \in Reqs :
    /\ GotCode(r) /\ CodeTable[code[r]].expiresAt < checkedAt[r]
       => /\ Failed(r, "invalid_grant", 400)
          /\ ~Called(r, "revokeAuthorizationCode") /\ ~Called(r, "saveToken")
    /\ GotRefreshToken(r)
       /\ (\E d \in RefreshTokenTable[token[r]].refreshTokenExpiresAt :
             d < checkedAt[r])
       => /\ Failed(r, "invalid_grant", 400)
          /\ ~Called(r, "revokeToken") /\ ~Called(r, "saveToken")

\* C4, witness: the client's own code, expired one tick ago, is rejected as
\* expired.
C4_Witness ==
  \E r \in Reqs :
    /\ GotCode(r) /\ CodeTable[code[r]].client = client[r]
    /\ CodeTable[code[r]].expiresAt + 1 = checkedAt[r]
    /\ Failed(r, "invalid_grant", 400)
    /\ error[r].message = "Invalid grant: authorization code has expired"

RedirectUriMessages ==
  {"Invalid request: redirect_uri is not a valid URI",
   "Invalid request: redirect_uri is invalid"}

RefreshTokenKeys == {"refreshToken", "refreshTokenExpiresAt"}

\* C5: in the authorization_code grant, when the code the model returned has
\* a redirectUri, the grant goes on to revoke the code and to save and issue
\* a token only if the request carries a redirect_uri that is a valid URI
\* equal to it, and a request that does not is rejected without a call of
\* model.saveToken; when the code has no redirectUri the request is never
\* rejected for its redirect_uri.
C5_RedirectUriMustMatch ==
  \A r \in Reqs :
    GotCode(r)
    => /\ Truthy(CodeTable[code[r]].redirectUri)
          /\ \/ pc[r] \in {"revokeAuthorizationCode", "promiseAll", "saveToken"}
             \/ Called(r, "saveToken")
             \/ Done(r) /\ error[r] = NoError
          => RedirectUriMatches(r)
       /\ Truthy(CodeTable[code[r]].redirectUri) /\ ~RedirectUriMatches(r)
          => /\ ~Called(r, "saveToken")
             /\ Done(r) /\ error[r] # NoError /\ response[r].status # 200
       /\ Falsy(CodeTable[code[r]].redirectUri) /\ Done(r)
          => error[r].message \notin RedirectUriMessages

\* C5, witness: the request's redirect_uri differs from the code's in its last
\* character only, and the request is rejected for it.
C5_Witness ==
  \E r \in Reqs :
    /\ GotCode(r) /\ CodeTable[code[r]].redirectUri = UriA
    /\ CarriedRedirectUri(r) = UriB
    /\ Failed(r, "invalid_request", 400)
    /\ error[r].message \in RedirectUriMessages

\* C6: when the code (refresh token) the model returned belongs to a client
\* other than the authenticated one, the request fails with invalid_grant
\* (400) and calls none of model.revokeAuthorizationCode, model.revokeToken
\* and model.saveToken.
C6_ClientIsolation ==
  \A r \in Reqs :
    \/ GotCode(r) /\ CodeTable[code[r]].client # client[r]
    \/ GotRefreshToken(r) /\ RefreshTokenTable[token[r]].client # client[r]
    => /\ Failed(r, "invalid_grant", 400)
       /\ ~Called(r, "revokeAuthorizationCode")
       /\ ~Called(r, "revokeToken")
       /\ ~Called(r, "saveToken")

\* C6, witness: an authenticated client presented an unexpired code of
\* another client and was refused; the code is not revoked.
C6_Witness ==
  \E r \in Reqs :
    /\ GotCode(r) /\ Truthy(client[r])
    /\ CodeTable[code[r]].client # client[r]
    /\ CodeTable[code[r]].expiresAt >= checkedAt[r]
    /\ code[r] \notin revokedCodes
    /\ Failed(r, "invalid_grant", 400)

RotationEnabled(r) == options[r].alwaysIssueNewRefreshToken # JsFalse

\* C7: in the refresh_token grant with rotation enabled, model.saveToken is
\* called only after a call of model.revokeToken that returned a truthy value;
\* a falsy value from revokeToken gives invalid_grant (400); and a request
\* that fails after the revocation leaves the refresh token revoked.
C7_RotationRevokesBeforeSave ==
  \A r \in Reqs :
    grant[r] = "refresh_token" /\ RotationEnabled(r)
    => /\ Cardinality(CallsOf(r, "revokeToken")) <= 1
       /\ Called(r, "saveToken") \/ pc[r] \in {"promiseAll", "saveToken"}
          => /\ Called(r, "revokeToken")
             /\ \A i \in CallsOf(r, "revokeToken") :
                  \A j \in CallsOf(r, "saveToken") : i < j
             /\ Truthy(status[r])
       /\ Done(r) /\ status[r] = JsFalse
          => Failed(r, "invalid_grant", 400) /\ ~Called(r, "saveToken")
       /\ Truthy(status[r]) => token[r] \in revokedTokens
       /\ Done(r) /\ error[r] = NoError => Called(r, "saveToken")

\* C7, witness: the refresh token was revoked and model.saveToken then threw:
\* the request has failed and the old refresh token is revoked.
C7_Witness ==
  \E r \in Reqs :
    /\ grant[r] = "refresh_token" /\ RotationEnabled(r)
    /\ Called(r, "saveToken") /\ ModelThrew(r)
    /\ token[r] \in revokedTokens

\* C8: when the alwaysIssueNewRefreshToken option is false, a refresh_token
\* grant request never calls model.revokeToken and the token it passes to
\* model.saveToken has neither refreshToken nor refreshTokenExpiresAt, so
\* the request does not revoke the refresh token it presents.
C8_NoRotationKeepsRefreshToken ==
  \A r \in Reqs :
    grant[r] = "refresh_token" /\ ~RotationEnabled(r)
    => /\ ~Called(r, "revokeToken")
       /\ status[r] = Undefined
       /\ Called(r, "saveToken") => saved[r].keys \cap RefreshTokenKeys = {}

\* C8, witness: a refresh_token request succeeded without rotation and its
\* refresh token is not revoked.
C8_Witness ==
  \E r \in Reqs :
    /\ grant[r] = "refresh_token" /\ ~RotationEnabled(r)
    /\ Done(r) /\ error[r] = NoError /\ Called(r, "saveToken")
    /\ "accessToken" \in saved[r].keys
    /\ token[r] \notin revokedTokens

\* C9: for every value of the alwaysIssueNewRefreshToken option other than
\* false, a successful refresh_token grant has called model.revokeToken and
\* has passed a token with refreshToken and refreshTokenExpiresAt to
\* model.saveToken.
C9_OnlyFalseDisablesRotation ==
  \A r \in Reqs :
    /\ grant[r] = "refresh_token" /\ Done(r) /\ error[r] = NoError
    /\ options[r].alwaysIssueNewRefreshToken # JsFalse
    => /\ Called(r, "revokeToken")
       /\ token[r] \in revokedTokens
       /\ RefreshTokenKeys \subseteq saved[r].keys

\* C9, witness: a refresh_token request succeeded with rotation under a
\* falsy option value other than false.
C9_Witness ==
  \E r \in Reqs :
    /\ grant[r] = "refresh_token" /\ Done(r) /\ error[r] = NoError
    /\ options[r].alwaysIssueNewRefreshToken \in {JsNull, JsZero}
    /\ Called(r, "revokeToken")
    /\ RefreshTokenKeys \subseteq saved[r].keys

GrantModelMethods ==
  {"getAuthorizationCode", "getUser", "getUserFromClient", "getRefreshToken",
   "revokeAuthorizationCode", "revokeToken", "saveToken"}

\* C10: when the client is authenticated and the request's grant_type is
\* registered (built-in or extension) but not among the client's grants, the
\* request fails with unauthorized_client (400), no grant handler is
\* constructed and no grant model method is called.
C10_UnauthorizedClient ==
  \A r \in Reqs :
    /\ Truthy(client[r])
    /\ request[r].grant_type \in grantTypes(options[r])
    /\ request[r].grant_type \notin ClientTable[client[r]].grants
    => /\ Failed(r, "unauthorized_client", 400)
       /\ response[r].status = 400
       /\ grant[r] = Undefined
       /\ \A m \in GrantModelMethods : ~Called(r, m)

\* C10, witness: a client without the registered extension grant asked for it.
C10_Witness ==
  \E r \in Reqs :
    /\ Truthy(client[r])
    /\ request[r].grant_type = ExtGrant
    /\ ExtGrant \in options[r].extendedGrantTypes
    /\ ExtGrant \notin ClientTable[client[r]].grants
    /\ Failed(r, "unauthorized_client", 400)

WwwAuthenticate == <<"WWW-Authenticate", "Basic realm=\"Service\"">>

HasHeader(r, name) == \E h \in response[r].headers : h[1] = name

\* C11: when the client is authenticated and the request's grant_type is
\* syntactically valid but no key of the registry of built-in and extension
\* grant types, the request fails with unsupported_grant_type (400) whether
\* or not the client's grants list it; no grant type is constructed and
\* model.saveToken is not called.
C11_UnsupportedGrantType ==
  \A r \in Reqs :
    /\ Truthy(client[r])
    /\ Truthy(request[r].grant_type)
    /\ nchar(request[r].grant_type) \/ uri(request[r].grant_type)
    /\ request[r].grant_type \notin grantTypes(options[r])
    => /\ Failed(r, "unsupported_grant_type", 400)
       /\ response[r].status = 400
       /\ grant[r] = Undefined
       /\ \A m \in GrantModelMethods : ~Called(r, m)

\* C11, witness: the client's grants list a grant type that is not
\* registered, and the request for it is refused as unsupported.
C11_Witness ==
  \E r \in Reqs :
    /\ Truthy(client[r])
    /\ request[r].grant_type \in ClientTable[client[r]].grants
    /\ request[r].grant_type \notin grantTypes(options[r])
    /\ Failed(r, "unsupported_grant_type", 400)

\* model.getClient was called for request r and returned no client.
NoClientFound(r) ==
  /\ request[r].path = "/token"
  /\ Done(r) /\ Called(r, "getClient") /\ client[r] = JsNull

\* C12: when model.getClient returns no client, a request that carried an
\* Authorization header fails with invalid_client, status 401 and the header
\* WWW-Authenticate: Basic realm="Service"; a request that carried none fails
\* with invalid_client, status 400 and no WWW-Authenticate header.
C12_InvalidClientStatus ==
  \A r \in Reqs :
    NoClientFound(r)
    => IF Truthy(request[r].authorization)
       THEN /\ Failed(r, "invalid_client", 401)
            /\ response[r].status = 401
            /\ WwwAuthenticate \in response[r].headers
            /\ response[r].body.error = "invalid_client"
       ELSE /\ Failed(r, "invalid_client", 400)
            /\ response[r].status = 400
            /\ ~HasHeader(r, "WWW-Authenticate")
            /\ response[r].body.error = "invalid_client"

\* C12, witness: an unknown client authenticated with HTTP Basic.
C12_Witness ==
  \E r \in Reqs :
    /\ NoClientFound(r) /\ request[r].authorization = BasicUnknown
    /\ response[r].status = 401
    /\ WwwAuthenticate \in response[r].headers

\* The credentials request r supplies: those of its Basic Authorization
\* header if it has one, those of its form fields if not.
SuppliedByBasic(r) == auth(request[r]).name # Undefined
SuppliedClientId(r) ==
  IF SuppliedByBasic(r) THEN auth(request[r]).name ELSE request[r].client_id
SuppliedClientSecret(r) ==
  IF SuppliedByBasic(r) THEN auth(request[r]).pass
  ELSE request[r].client_secret

\* Request r is a POST of a form that the handler has taken up.
TakenUp(r) ==
  /\ request[r].path = "/token" /\ pc[r] # "idle"
  /\ request[r].method = "POST" /\ request[r].form

\* The grant of request r requires client authentication: the option is empty,
\* or does not list the grant, or lists it with the value true.
AuthenticationRequired(r) ==
  LET rca == options[r].requireClientAuthentication IN
  \/ rca.keys = {}
  \/ request[r].grant_type \notin rca.keys
  \/ request[r].grant_type \in rca.required

\* Request r supplies no client_id, or supplies a client_id and no
\* client_secret for a grant that requires client authentication.
MissingCredentials(r) ==
  /\ TakenUp(r)
  /\ \/ Falsy(SuppliedClientId(r))
     \/ Falsy(SuppliedClientSecret(r)) /\ AuthenticationRequired(r)

\* C13, as stated: a request with no client_id, and a request with a
\* client_id and no client_secret for a grant that requires client
\* authentication, fails with invalid_request without a call of
\* model.getClient, whether the credentials are in a Basic header or in the
\* form.
C13_MissingCredentialsInvalidRequest ==
  \A r \in Reqs :
    MissingCredentials(r)
    => Failed(r, "invalid_request", 400) /\ ~Called(r, "getClient")

\* C13, amended: such a request fails with status 400 without a call of
\* model.getClient and without a WWW-Authenticate header; it fails with
\* invalid_request when the credentials are those of a Basic header, and
\* with invalid_client when they are form fields.
C13_MissingCredentialsRejected ==
  \A r \in Reqs :
    MissingCredentials(r)
    => /\ ~Called(r, "getClient")
       /\ response[r].status = 400
       /\ ~HasHeader(r, "WWW-Authenticate")
       /\ IF SuppliedByBasic(r)
          THEN Failed(r, "invalid_request", 400)
          ELSE Failed(r, "invalid_client", 400)

\* C13, witness: a form with a client_id and no client_secret, for a grant
\* that requires client authentication, is refused as invalid_client.
C13_Witness ==
  \E r \in Reqs :
    /\ MissingCredentials(r) /\ ~SuppliedByBasic(r)
    /\ request[r].client_id = "c1" /\ request[r].client_secret = Undefined
    /\ Failed(r, "invalid_client", 400)
    /\ error[r].message = "Invalid client: cannot retrieve client credentials"

\* C14: model.getClient is called without a secret exactly for the requests
\* that supply a valid client_id and no client_secret for a grant that the
\* requireClientAuthentication option lists with the value false; it is then
\* called with the supplied client_id.  With an empty option, and for a grant
\* the option does not list, model.getClient is only ever called with a
\* secret.
C14_ClientAuthenticationRequired ==
  \A r \in Reqs :
    TakenUp(r)
    => /\ (Called(r, "getClient") /\ Falsy(calls[r][1].args[2]))
          <=> /\ ~AuthenticationRequired(r)
              /\ Truthy(SuppliedClientId(r)) /\ vschar(SuppliedClientId(r))
              /\ Falsy(SuppliedClientSecret(r))
       /\ Called(r, "getClient")
          => calls[r][1] = Call("getClient", <<SuppliedClientId(r),
                                               SuppliedClientSecret(r)>>)
       /\ Called(r, "getClient") /\ AuthenticationRequired(r)
          => Truthy(SuppliedClientSecret(r))

\* C14, witness: a token was issued to a client that sent its client_id only,
\* for a grant listed as not requiring authentication.
C14_Witness ==
  \E r \in Reqs :
    /\ Done(r) /\ error[r] = NoError
    /\ options[r].requireClientAuthentication
         = [keys |-> {"client_credentials"}, required |-> {}]
    /\ calls[r][1] = Call("getClient", <<"c1", Undefined>>)

\* C15, as stated: whenever TokenHandler.handle rejects a request, one that
\* is no POST or no form included, the response body is {error,
\* error_description} of the error and the response status is the error's
\* code.
C15_RejectionWritesResponse ==
  \A r \in Reqs :
    request[r].path = "/token" /\ Done(r) /\ error[r] # NoError
    => /\ response[r].body.error = error[r].name
       /\ response[r].body.error_description = error[r].message
       /\ response[r].status = error[r].code

Authorizing(r) == request[r].path = "/authorize"

\* The redirect_uri an authorization request asks for, and the redirect URI
\* it resolves to with the client the model returned.
RequestedRedirectUri(r) ==
  Or(request[r].redirect_uri, request[r].query_redirect_uri)
ResolvedRedirectUri(r) ==
  Or(RequestedRedirectUri(r), ClientTable[client[r]].redirectUris[1])

\* The client and the user of authorization request r have been resolved:
\* the client exists, may use the authorization_code grant and has the
\* requested redirect_uri, if any, among its redirectUris, which are not
\* empty; and the authenticate handler returned a user.
Resolved(r) ==
  /\ Authorizing(r)
  /\ client[r] \in DOMAIN ClientTable
  /\ "authorization_code" \in ClientTable[client[r]].grants
  /\ ClientTable[client[r]].redirectUris # <<>>
  /\ \/ Falsy(RequestedRedirectUri(r))
     \/ RequestedRedirectUri(r) \in Elements(ClientTable[client[r]].redirectUris)
  /\ Truthy(user[r])

\* C16, as stated: every error that leaves TokenHandler.handle or
\* AuthorizeHandler.handle is an OAuthException; what a model call or an
\* internal step throws that is none has been replaced by a server_error
\* with code 503.
C16_OnlyOAuthExceptionsLeave ==
  \A r \in Reqs :
    Done(r) /\ error[r] # NoError
    => /\ IsOAuthException(error[r])
       /\ error[r].message = ModelFailure.message
          => error[r].name = "server_error" /\ error[r].code = 503

\* C18, as stated: an authorization request of a known client with the query
\* parameter allowed equal to "false" ends with the response redirected (302)
\* to the client's redirect URI with error=access_denied, an
\* error_description and the request's state, and without a call of
\* model.saveAuthorizationCode.
C18_DeniedIsRedirected ==
  \A r \in Reqs :
    /\ Authorizing(r) /\ Done(r)
    /\ request[r].query_allowed = "false"
    /\ request[r].query_client_id = "c1"
    /\ request[r].query_redirect_uri \in {Undefined, UriA}
    => /\ response[r].status = 302
       /\ response[r].location.base = UriA
       /\ <<"error", "access_denied">> \in response[r].location.params
       /\ \E p \in response[r].location.params : p[1] = "error_description"
       /\ <<"state", request[r].query_state>> \in response[r].location.params
       /\ ~Called(r, "saveAuthorizationCode")

\* C19, as stated: when handle rejects an authorization request whose client
\* and user were resolved, the response is redirected to the resolved
\* redirect URI with error=<the error's name> and, when its message is not
\* empty, error_description=<its message>.
C19_ErrorIsRedirected ==
  \A r \in Reqs :
    Resolved(r) /\ Done(r) /\ error[r] # NoError
    => /\ response[r].status = 302
       /\ response[r].location.base = UrlParse(ResolvedRedirectUri(r)).base
       /\ <<"error", error[r].name>> \in response[r].location.params
       /\ error[r].message # ""
          => <<"error_description", error[r].message>>
               \in response[r].location.params

\* C20: every redirect of an authorization request, success or error, goes to
\* an element of the redirectUris of the client the model returned: the
\* redirect_uri of the request if it has one, the first of the redirectUris
\* if not; and a request whose client or user was not resolved is not
\* redirected.
C20_RedirectsToRegisteredUri ==
  \A r \in Reqs :
    Authorizing(r)
    => /\ response[r].location # NoLocation
          => /\ Resolved(r) /\ Done(r) /\ response[r].status = 302
             /\ ResolvedRedirectUri(r)
                  \in Elements(ClientTable[client[r]].redirectUris)
             /\ response[r].location.base
                  = UrlParse(ResolvedRedirectUri(r)).base
             /\ UrlParse(ResolvedRedirectUri(r)).query
                  \subseteq response[r].location.params
       /\ Done(r) /\ ~Resolved(r)
          => /\ response[r] = NewResponse
             /\ error[r] # NoError
             /\ ~Called(r, "saveAuthorizationCode")

\* C20, witness: a request without redirect_uri was redirected to the first
\* of its client's redirectUris with the code.
C20_Witness ==
  \E r \in Reqs :
    /\ Resolved(r) /\ Done(r) /\ error[r] = NoError
    /\ Falsy(RequestedRedirectUri(r))
    /\ response[r].location.base
         = UrlParse(ClientTable[client[r]].redirectUris[1]).base
    /\ <<"code", NewCode>> \in response[r].location.params

\* C21, as stated: an authorization request the user did not deny that is
\* rejected before its client and user are resolved has the error written on
\* the response: the body {error, error_description} and the error's code as
\* the status.
C21_EarlyErrorOnResponse ==
  \A r \in Reqs :
    /\ Authorizing(r) /\ Done(r) /\ error[r] # NoError
    /\ ~Resolved(r) /\ request[r].query_allowed # "false"
    => /\ response[r].body.error = error[r].name
       /\ response[r].body.error_description = error[r].message
       /\ response[r].status = error[r].code

\* C22, as stated: no redirect of an authorization request carries
\* error=invalid_argument, nor the message of an error of code 500.
C22_NoProgrammerErrorInRedirect ==
  \A r \in Reqs :
    Authorizing(r)
    => /\ <<"error", "invalid_argument">> \notin response[r].location.params
       /\ error[r].code = 500
          => <<"error_description", error[r].message>>
               \notin response[r].location.params

\* C24: an authorization request calls model.saveAuthorizationCode only with
\* a client the model returned for its client_id, whose grants include
\* authorization_code, whose redirectUris are not empty and, when the request
\* has a redirect_uri, include it; a request whose client lacks the
\* authorization_code grant fails with unauthorized_client, one whose client
\* has no redirectUris or not the requested one with invalid_client, and none
\* of them calls model.saveAuthorizationCode.
C24_CodeSavedForResolvedClientOnly ==
  \A r \in Reqs :
    Authorizing(r)
    => /\ Called(r, "saveAuthorizationCode")
          => /\ client[r] \in DOMAIN ClientTable
             /\ client[r] = Or(request[r].client_id, request[r].query_client_id)
             /\ "authorization_code" \in ClientTable[client[r]].grants
             /\ ClientTable[client[r]].redirectUris # <<>>
             /\ Truthy(RequestedRedirectUri(r))
                => RequestedRedirectUri(r)
                     \in Elements(ClientTable[client[r]].redirectUris)
       /\ client[r] \in DOMAIN ClientTable
          /\ "authorization_code" \notin ClientTable[client[r]].grants
          => Failed(r, "unauthorized_client", 400)
       /\ client[r] \in DOMAIN ClientTable
          /\ "authorization_code" \in ClientTable[client[r]].grants
          /\ \/ ClientTable[client[r]].redirectUris = <<>>
             \/ /\ Truthy(RequestedRedirectUri(r))
                /\ RequestedRedirectUri(r)
                     \notin Elements(ClientTable[client[r]].redirectUris)
          => Failed(r, "invalid_client", 400)
       /\ client[r] = JsNull => Failed(r, "invalid_client", 400)

\* C24, witness: the request of a client without the authorization_code
\* grant was rejected with unauthorized_client and saved no code.
C24_Witness ==
  \E r \in Reqs :
    /\ Authorizing(r) /\ client[r] = "c3"
    /\ Failed(r, "unauthorized_client", 400)
    /\ ~Called(r, "saveAuthorizationCode")

\* The scope, state and response_type of an authorization request.
RequestedScope(r) == Or(request[r].scope, request[r].query_scope)
RequestedState(r) == Or(request[r].state, request[r].query_state)
RequestedResponseType(r) ==
  Or(request[r].response_type, request[r].query_response_type)

\* The authorization request r got as far as reading its state: client and
\* user are resolved, the scope is valid and no model method threw.
ReachedState(r) ==
  /\ Resolved(r) /\ Done(r) /\ ~ModelThrew(r)
  /\ RequestedScope(r) \in {Undefined, "read"}

\* C30: an authorization request calls model.saveAuthorizationCode only after
\* its client and user are resolved and with a valid scope, a state that is
\* valid and, unless allowEmptyState, present, and the response_type code; a
\* request that got as far without a state, allowEmptyState being false,
\* fails with invalid_request, as does one with a state and without
\* response_type, and one with an unknown response_type fails with
\* unsupported_response_type; none of them calls model.saveAuthorizationCode.
C30_CodeSavedAfterValidation ==
  \A r \in Reqs :
    Authorizing(r)
    => /\ Called(r, "saveAuthorizationCode")
          => /\ Resolved(r)
             /\ RequestedScope(r) \in {Undefined, "read"}
             /\ RequestedState(r) # NonVschar
             /\ Truthy(RequestedState(r)) \/ options[r].allowEmptyState = JsTrue
             /\ RequestedResponseType(r) = "code"
       /\ ReachedState(r) /\ Falsy(RequestedState(r))
          /\ options[r].allowEmptyState = JsFalse
          => /\ Failed(r, "invalid_request", 400)
             /\ error[r].message = "Missing parameter: state"
             /\ ~Called(r, "saveAuthorizationCode")
       /\ ReachedState(r) /\ RequestedState(r) = "xyz"
          /\ Falsy(RequestedResponseType(r))
          => /\ Failed(r, "invalid_request", 400)
             /\ error[r].message = "Missing parameter: response_type"
             /\ ~Called(r, "saveAuthorizationCode")
       /\ ReachedState(r) /\ RequestedState(r) = "xyz"
          /\ RequestedResponseType(r) = "token"
          => /\ Failed(r, "unsupported_response_type", 400)
             /\ ~Called(r, "saveAuthorizationCode")

\* C30, witness: a request without state was rejected with invalid_request
\* after its client and user were resolved, and saved no code.
C30_Witness ==
  \E r \in Reqs :
    /\ ReachedState(r) /\ Falsy(RequestedState(r))
    /\ RequestedResponseType(r) = "code"
    /\ options[r].allowEmptyState = JsFalse
    /\ Failed(r, "invalid_request", 400)
    /\ ~Called(r, "saveAuthorizationCode")

\* The model methods of grant processing.
GrantProcessingMethods ==
  GrantModelMethods
  \cup {"validateScope", "generateAccessToken", "generateRefreshToken"}

SaveAuthorizationCodeArgs(r) ==
  {calls[r][i].args : i \in CallsOf(r, "saveAuthorizationCode")}

\* C23: an authorization request that succeeded called
\* model.saveAuthorizationCode once, with the authorization code generated
\* (by the model if it generates them), expiresAt = the Date of the request
\* + authorizationCodeLifetime seconds, the resolved redirect URI, the scope
\* of the request, the client and the user; and its response is a 302 to the
\* resolved redirect URI with the parameters that URI had, code = the
\* authorizationCode of what model.saveAuthorizationCode returned and, when
\* the request has one, its state.
C23_SuccessSavesAndRedirects ==
  \A r \in Reqs :
    Authorizing(r) /\ Done(r) /\ error[r] = NoError
    => /\ Resolved(r)
       /\ Cardinality(CallsOf(r, "saveAuthorizationCode")) = 1
       /\ SaveAuthorizationCodeArgs(r) =
            {<<IF "generateAuthorizationCode" \in modelMethods
               THEN GeneratedCode ELSE RandomToken,
               checkedAt[r] * TickMillis + 300 * 1000,
               ResolvedRedirectUri(r), RequestedScope(r), client[r],
               AuthenticatedUser>>}
       /\ user[r] = AuthenticatedUser
       /\ response[r].status = 302
       /\ response[r].location.base
            = (IF ResolvedRedirectUri(r) = UriQ
               THEN UriA ELSE ResolvedRedirectUri(r))
       /\ response[r].location.params =
            (IF ResolvedRedirectUri(r) = UriQ THEN {<<"a", "1">>} ELSE {})
            \cup {<<"code", code[r]>>}
            \cup (IF RequestedState(r) = "xyz"
                  THEN {<<"state", "xyz">>} ELSE {})

\* C23, witness: a request for a redirect URI with a query component
\* succeeded after the clock had moved on, and the model returned a code with
\* an authorizationCode of its own.
C23_Witness ==
  \E r \in Reqs :
    /\ Authorizing(r) /\ Done(r) /\ error[r] = NoError
    /\ ResolvedRedirectUri(r) = UriQ
    /\ checkedAt[r] < now
    /\ code[r] = NewCode
    /\ response[r].location.params =
         {<<"a", "1">>, <<"code", NewCode>>, <<"state", "xyz">>}

\* The token request r succeeded with a token of a built-in grant type.
Issued(r) ==
  /\ request[r].path = "/token" /\ Done(r) /\ error[r] = NoError
  /\ grant[r] \in BuiltinGrantNames

\* The access token lifetime that applies to request r: the one of its
\* client when it has one, the handler's if not.
Lifetime(r) == IF client[r] = "c3" THEN 60 ELSE 3600

\* C27, as stated: the expires_in of a token whose accessTokenExpiresAt is the
\* one the grant type computed in the request is the lifetime L that applies,
\* or L - 1.
C27_ExpiresInWithinASecond ==
  \A r \in Reqs :
    Issued(r) /\ dates[r].returned = dates[r].accessTokenExpiresAt
    => /\ response[r].body.expires_in # {}
       /\ response[r].body.expires_in \subseteq {Lifetime(r), Lifetime(r) - 1}

\* C27, amended: the expires_in of a successful token response is
\* floor((accessTokenExpiresAt - now) / 1 s), with the accessTokenExpiresAt
\* of the token model.saveToken returned and now the Date the response was
\* built, and is absent when that token has no accessTokenExpiresAt; the
\* accessTokenExpiresAt the grant type computed is a Date of the request plus
\* L seconds, L being the client's accessTokenLifetime if it has one and the
\* handler's if not; and when the model returns that accessTokenExpiresAt,
\* expires_in is L less the time that passed since, rounded up to whole
\* seconds: never more than L, and less than L - 1 when more than a second
\* passed.
C27_ExpiresIn ==
  \A r \in Reqs :
    Issued(r)
    => /\ \E t \in 1..now :
            /\ dates[r].accessTokenExpiresAt
                 = {t * TickMillis + Lifetime(r) * 1000}
            /\ dates[r].built \subseteq {b * TickMillis : b \in t..now}
       /\ Cardinality(dates[r].built) = 1
       /\ \A b \in dates[r].built :
            /\ response[r].body.expires_in
                 = {(e - b) \div 1000 : e \in dates[r].returned}
            /\ \A x \in response[r].body.expires_in, e \in dates[r].returned :
                 x * 1000 <= e - b /\ e - b < (x + 1) * 1000
            /\ dates[r].returned = dates[r].accessTokenExpiresAt
               => \A x \in response[r].body.expires_in,
                     e \in dates[r].accessTokenExpiresAt :
                    /\ x <= Lifetime(r)
                    /\ (Lifetime(r) - x) * 1000 >= b - (e - Lifetime(r) * 1000)
                    /\ (Lifetime(r) - x - 1) * 1000 < b - (e - Lifetime(r) * 1000)

\* C27, witness: a token of a client with an accessTokenLifetime of its own
\* was issued more than a second after its expiry was computed.
C27_Witness ==
  \E r \in Reqs :
    /\ Issued(r) /\ client[r] = "c3"
    /\ dates[r].returned = dates[r].accessTokenExpiresAt
    /\ response[r].body.expires_in = {58}

\* The model methods the operation request r asks for requires.
RequiredBy(r) ==
  IF Authorizing(r) THEN {"getClient", "saveAuthorizationCode"}
  ELSE {"getClient", "saveToken"}
       \cup (CASE request[r].grant_type = "authorization_code" ->
                    {"getAuthorizationCode", "revokeAuthorizationCode"}
               [] request[r].grant_type = "refresh_token" ->
                    {"getRefreshToken", "revokeToken"}
               [] request[r].grant_type = "password" -> {"getUser"}
               [] request[r].grant_type = "client_credentials" ->
                    {"getUserFromClient"}
               [] OTHER -> {})

\* C25, as stated: an operation on a model that lacks a method the operation
\* requires fails with invalid_argument (500) without having called
\* model.getClient (no model method having thrown).
C25_MissingMethodFailsFast ==
  \A r \in Reqs :
    Done(r) /\ ~ModelThrew(r) /\ ~(RequiredBy(r) \subseteq modelMethods)
    => /\ Failed(r, "invalid_argument", 500)
       /\ ~Called(r, "getClient")

\* The requests that present the authorization code k and, of these, the
\* ones that called model.saveToken.
Presenting(k) ==
  {r \in Reqs : request[r].path = "/token" /\ pc[r] # "idle"
                /\ request[r].grant_type = "authorization_code"
                /\ request[r].code = k}
Saving(k) == {r \in Presenting(k) : Called(r, "saveToken")}

DocumentedDefaults ==
  [authenticate |-> [allowBearerTokensInQueryString |-> JsFalse],
   authorize |-> [authorizationCodeLifetime |-> "300",
                  allowEmptyState |-> JsFalse],
   token |-> [accessTokenLifetime |-> "3600",
              refreshTokenLifetime |-> "1209600",
              allowExtendedTokenAttributes |-> JsFalse]]

\* The keys the options argument of the followed call supplies.
SuppliedByCall ==
  IF serverCall.argument.kind = "string" THEN {"scope"}
  ELSE DOMAIN serverCall.argument.value

\* C26: the handler of authenticate, authorize or token is constructed with,
\* for every key, the value of the call's options if they have the key (be it
\* undefined), if not the value of the server's options if they have the key,
\* and if not the documented default of the operation; and a string given as
\* the options of authenticate is the value of scope.
C26_OptionPrecedence ==
  serverCall.operation # ""
  => LET call == serverCall.argument
         server == serverCall.serverOptions
         documented == DocumentedDefaults[serverCall.operation]
     IN
     /\ SuppliedByCall \cup DOMAIN server \cup DOMAIN documented
          \subseteq DOMAIN serverCall.options
     /\ \A k \in SuppliedByCall :
          serverCall.options[k]
            = (IF call.kind = "string" THEN call.value ELSE call.value[k])
     /\ \A k \in DOMAIN server \ SuppliedByCall :
          serverCall.options[k] = server[k]
     /\ \A k \in DOMAIN documented \ (SuppliedByCall \cup DOMAIN server) :
          serverCall.options[k] = documented[k]

\* C26, witness: token was called with an accessTokenLifetime of its own and
\* an undefined allowEmptyState on a server with an allowEmptyState and an
\* authorizationCodeLifetime, and its refreshTokenLifetime is the default.
C26_Witness ==
  /\ serverCall.operation = "token"
  /\ serverCall.argument.kind = "object"
  /\ DOMAIN serverCall.argument.value = {"accessTokenLifetime", "allowEmptyState"}
  /\ serverCall.argument.value["allowEmptyState"] = Undefined
  /\ DOMAIN serverCall.serverOptions
       = {"model", "accessTokenLifetime", "allowEmptyState",
          "authorizationCodeLifetime"}
  /\ serverCall.options["accessTokenLifetime"] = "120"
  /\ serverCall.options["allowEmptyState"] = Undefined
  /\ serverCall.options["authorizationCodeLifetime"] = "60"
  /\ serverCall.options["refreshTokenLifetime"] = "1209600"

\* C31, as stated: every error redirect of an authorization request that has
\* a valid state carries state=<that state>, whichever step raised the error.
C31_ErrorRedirectCarriesState ==
  \A r \in Reqs :
    /\ Authorizing(r) /\ Done(r) /\ error[r] # NoError
    /\ response[r].status = 302
    /\ <<"error", error[r].name>> \in response[r].location.params
    /\ Truthy(RequestedState(r)) /\ vschar(RequestedState(r))
    => <<"state", RequestedState(r)>> \in response[r].location.params

\* The authenticate handler of authorization request r had no user for it.
YieldedNoUser(r) == Authorizing(r) /\ Done(r) /\ user[r] = JsNull

\* C32, as stated: an authorization request whose authenticate handler yields
\* no user, be it the AuthenticateHandler of the library or a handler of the
\* host, fails with server_error and does not call model.saveAuthorizationCode.
C32_NoUserIsServerError ==
  \A r \in Reqs :
    YieldedNoUser(r)
    => /\ error[r].name = "server_error"
       /\ ~Called(r, "saveAuthorizationCode")

\* C33, as stated: a request presenting, with its redirect URI, an
\* authorization code of its client whose expiresAt is the time of the check
\* fails with invalid_grant (400) and calls
\* neither model.revokeAuthorizationCode nor model.saveToken.
C33_CodeAtItsExpiryRejected ==
  \A r \in Reqs :
    /\ GotCode(r) /\ CodeTable[code[r]].expiresAt = checkedAt[r]
    /\ CodeTable[code[r]].client = client[r] /\ RedirectUriMatches(r)
    => /\ Failed(r, "invalid_grant", 400)
       /\ ~Called(r, "revokeAuthorizationCode") /\ ~Called(r, "saveToken")

\* C34: the refresh_token grant calls model.saveToken with the scope and the
\* user of the refresh token model.getRefreshToken returned and with the
\* authenticated client, which is the client of that refresh token, whatever
\* the scope parameter of the request.
C34_RefreshKeepsScope ==
  \A r \in Reqs :
    grant[r] = "refresh_token" /\ Called(r, "saveToken")
    => /\ GotRefreshToken(r)
       /\ saved[r].scope = RefreshTokenTable[token[r]].scope
       /\ saved[r].user = RefreshTokenTable[token[r]].user
       /\ saved[r].client = client[r]
       /\ client[r] = RefreshTokenTable[token[r]].client

\* C34, witness: a request with a scope parameter other than the scope of
\* its refresh token had its token saved with the scope of the refresh token.
C34_Witness ==
  \E r \in Reqs :
    /\ grant[r] = "refresh_token" /\ Called(r, "saveToken") /\ Done(r)
    /\ error[r] = NoError
    /\ request[r].scope = BadScope
    /\ saved[r].scope = "read" /\ saved[r].user = "u1"
    /\ saved[r].client = "c1"

\* The saveToken of the grant type of request r called model.validateScope
\* and its Promise.all has settled.
ScopeValidated(r) ==
  /\ grant[r] \in {"authorization_code", "password", "client_credentials"}
  /\ Called(r, "validateScope") /\ pc[r] # "promiseAll"

\* C35: in the authorization_code, password and client_credentials grants
\* with a model that implements validateScope, when it returned a falsy value
\* the request fails, with invalid_scope (400) unless a model method threw,
\* and model.saveToken is not called, though model.generateAccessToken, if
\* implemented, was called; and model.saveToken is only called with the scope
\* model.validateScope returned.
C35_ValidatedScopeIsSaved ==
  \A r \in Reqs :
    ScopeValidated(r)
    => /\ "generateAccessToken" \in modelMethods
          => Called(r, "generateAccessToken")
       /\ Falsy(validatedScope[r])
          => /\ Done(r) /\ ~Called(r, "saveToken")
             /\ ModelThrew(r) \/ Failed(r, "invalid_scope", 400)
       /\ Called(r, "saveToken")
          => /\ Truthy(validatedScope[r])
             /\ saved[r].scope = validatedScope[r]

\* C35, witness: model.validateScope returned null to a password request
\* after model.generateAccessToken was called, and the request failed with
\* invalid_scope without model.saveToken being called.
C35_Witness ==
  \E r \in Reqs :
    /\ ScopeValidated(r) /\ grant[r] = "password"
    /\ validatedScope[r] = JsNull
    /\ Called(r, "generateAccessToken") /\ ~Called(r, "saveToken")
    /\ Failed(r, "invalid_scope", 400)
    /\ response[r].status = 400 /\ response[r].body.error = "invalid_scope"

====
